---- MODULE Spec2Model ----
(***************************************************************************)
(* Custodial signing service (pontoon): the wallet plane's HMAC            *)
(* authentication middleware and its handlers, the admin plane's client    *)
(* provisioning, the envelope encryption of credentials and signing keys,  *)
(* and the textual formats (base64, nonce:ciphertext) they are stored in.  *)
(*                                                                         *)
(* Text is modelled as a sequence of byte values (ASCII codes), so that    *)
(* encoding, parsing, concatenation and bit flips are computed and not     *)
(* assumed.  The primitives that come from libraries (AES-256-GCM,         *)
(* HMAC-SHA256, RSA PKCS#1 v1.5, SHA-1 for UUIDv5) are replaced by small   *)
(* keyed checksums with the same interface; each states which property of  *)
(* the real primitive it keeps.                                            *)
(***************************************************************************)
EXTENDS Integers, Sequences, FiniteSets, TLC

VARIABLES
    credentials,   \* table credentials: set of rows
    clients,       \* table clients: set of rows
    users,         \* table users: set of rows
    reqs,          \* wallet requests in flight, one record per connection slot
    tampered,      \* a stored ciphertext has been altered outside the service
    fin,           \* input of the pure function under study (function specifications)
    fout           \* its outputs, filled in by the function's action

vars == <<credentials, clients, users, reqs, tampered, fin, fout>>

(***************************************************************************)
(* Result<T, E> and Option<T>                                              *)
(***************************************************************************)
Ok(v) == [ok |-> TRUE, val |-> v]

Err(e) == [ok |-> FALSE, err |-> e]

\* the ? operator: the Err (or the panic) of res, or f of the value of Ok
AndThen(res, f(_)) == IF res.ok THEN f(res.val) ELSE res

\* let v = ...; f(v)
With(v, f(_)) == f(v)

\* Option::and_then
OptAndThen(opt, f(_)) == IF opt.some THEN f(opt.val) ELSE [some |-> FALSE]

\* Option::ok_or_else
OkOrElse(opt, e) == IF opt.some THEN Ok(opt.val) ELSE Err(e)

\* Result::map_err
MapErr(res, e) == IF res.ok THEN res ELSE Err(e)

None == [some |-> FALSE]

Some(v) == [some |-> TRUE, val |-> v]

(***************************************************************************)
(* Bytes and text                                                          *)
(***************************************************************************)
Byte == 0..255

RECURSIVE SumFrom(_, _)
SumFrom(s, i) == IF i > Len(s) THEN 0 ELSE (s[i] + SumFrom(s, i + 1)) % 256

SumBytes(s) == SumFrom(s, 1)

RECURSIVE WeightedSum(_, _)
\* position-weighted checksum: sum of (2i-1) * s[i], from position i on
WeightedSum(s, i) ==
    IF i > Len(s) THEN 0 ELSE (((2 * i - 1) * s[i]) + WeightedSum(s, i + 1)) % 256

RECURSIVE IndexOf(_, _, _)
\* first position >= i of byte c in s, 0 when absent
IndexOf(s, c, i) ==
    IF i > Len(s) THEN 0 ELSE IF s[i] = c THEN i ELSE IndexOf(s, c, i + 1)

\* n bytes derived from the checksum value h
Spread(h, n, step) == [i \in 1..n |-> (h + step * i) % 256]

Count(s, c) == Cardinality({i \in 1..Len(s) : s[i] = c})

\* std::string::String::from_utf8 on the bytes the model enumerates: ASCII is
\* valid, C0..C1 and F8..FF lead bytes and bare continuation bytes are not
IsUtf8(s) == \A i \in 1..Len(s) : s[i] < 128

\* the byte with bit k (0..7) flipped
RECURSIVE Pow2(_)
Pow2(k) == IF k = 0 THEN 1 ELSE 2 * Pow2(k - 1)

FlipBit(b, k) == IF (b \div Pow2(k)) % 2 = 1 THEN b - Pow2(k) ELSE b + Pow2(k)

FlipBitAt(s, i, k) == [s EXCEPT ![i] = FlipBit(s[i], k)]

(***************************************************************************)
(* base64 (crate base64, engines STANDARD and URL_SAFE_NO_PAD)             *)
(***************************************************************************)
\* symbol value 0..63 -> character
B64Char(v, urlsafe) ==
    IF v < 26 THEN 65 + v
    ELSE IF v < 52 THEN 97 + (v - 26)
    ELSE IF v < 62 THEN 48 + (v - 52)
    ELSE IF v = 62 THEN (IF urlsafe THEN 45 ELSE 43)
    ELSE (IF urlsafe THEN 95 ELSE 47)

\* character -> symbol value, -1 when the character is not in the alphabet
B64Val(c, urlsafe) ==
    IF c >= 65 /\ c <= 90 THEN c - 65
    ELSE IF c >= 97 /\ c <= 122 THEN c - 97 + 26
    ELSE IF c >= 48 /\ c <= 57 THEN c - 48 + 52
    ELSE IF c = (IF urlsafe THEN 45 ELSE 43) THEN 62
    ELSE IF c = (IF urlsafe THEN 95 ELSE 47) THEN 63
    ELSE -1

\* the symbols of bytes, without padding: every 3 bytes give 4 symbols, a
\* rest of 1 byte gives 2 and a rest of 2 bytes gives 3
B64Symbols(bytes, urlsafe) ==
    LET n == Len(bytes)
        at(i) == IF i <= n THEN bytes[i] ELSE 0
        sym(j) ==
            LET g == 3 * ((j - 1) \div 4)
                k == (j - 1) % 4
            IN
            IF k = 0 THEN at(g + 1) \div 4
            ELSE IF k = 1 THEN (at(g + 1) % 4) * 16 + (at(g + 2) \div 16)
            ELSE IF k = 2 THEN (at(g + 2) % 16) * 4 + (at(g + 3) \div 64)
            ELSE at(g + 3) % 64
    IN [j \in 1..((4 * n + 2) \div 3) |-> B64Char(sym(j), urlsafe)]

\* number of '=' the padded form appends
PadLen(n) == IF n % 3 = 0 THEN 0 ELSE 3 - (n % 3)

UrlSafeNoPadEncode(bytes) == B64Symbols(bytes, TRUE)

StandardEncode(bytes) ==
    B64Symbols(bytes, FALSE) \o [i \in 1..PadLen(Len(bytes)) |-> 61]

\* the bytes of an unpadded body s of alphabet characters, Len(s) % 4 # 1:
\* every 4 symbols give 3 bytes, a rest of 2 gives 1 and a rest of 3 gives 2
B64Bytes(s, urlsafe) ==
    LET v(j) == B64Val(s[j], urlsafe)
        byte(i) ==
            LET g == 4 * ((i - 1) \div 3)
                k == (i - 1) % 3
            IN
            IF k = 0 THEN v(g + 1) * 4 + (v(g + 2) \div 16)
            ELSE IF k = 1 THEN (v(g + 2) % 16) * 16 + (v(g + 3) \div 4)
            ELSE (v(g + 3) % 4) * 64 + v(g + 4)
    IN [i \in 1..((3 * Len(s)) \div 4) |-> byte(i)]

\* the unused low bits of the last symbol of an unpadded body of length n
TrailingBits(s, urlsafe) ==
    LET n == Len(s)
        last == B64Val(s[n], urlsafe)
    IN
    IF n % 4 = 2 THEN last % 16
    ELSE IF n % 4 = 3 THEN last % 4
    ELSE 0

\* decode of an unpadded body
B64DecodeBody(s, urlsafe) ==
    IF \E i \in 1..Len(s) : B64Val(s[i], urlsafe) < 0 THEN Err("Base64.InvalidByte")
    ELSE IF Len(s) % 4 = 1 THEN Err("Base64.InvalidLength")
    ELSE IF Len(s) > 0 /\ TrailingBits(s, urlsafe) # 0 THEN Err("Base64.InvalidLastSymbol")
    ELSE Ok(B64Bytes(s, urlsafe))

\* URL_SAFE_NO_PAD.decode: no '=' is accepted ('=' is not in the alphabet)
UrlSafeNoPadDecode(s) == B64DecodeBody(s, TRUE)

\* STANDARD.decode: canonical padding is required
StandardDecode(s) ==
    With(IndexOf(s, 61, 1), LAMBDA first :
    With(IF first = 0 THEN s ELSE SubSeq(s, 1, first - 1), LAMBDA body :
    With(Len(s) - Len(body), LAMBDA pad :
        IF \E i \in 1..Len(body) : B64Val(body[i], FALSE) < 0
        THEN Err("Base64.InvalidByte")
        ELSE IF \E i \in (Len(body) + 1)..Len(s) : s[i] # 61 THEN Err("Base64.InvalidByte")
        ELSE IF Len(body) % 4 = 1 THEN Err("Base64.InvalidLength")
        ELSE IF (Len(body) + pad) % 4 # 0 \/ pad > 2 THEN Err("Base64.InvalidPadding")
        ELSE IF Len(body) > 0 /\ TrailingBits(body, FALSE) # 0
        THEN Err("Base64.InvalidLastSymbol")
        ELSE Ok(B64Bytes(body, FALSE)))))

(***************************************************************************)
(* Encrypted and its canonical string (core/types/src/encrypt.rs)          *)
(***************************************************************************)
COLON == 58

Encrypted(nonce, ciphertext) == [nonce |-> nonce, ciphertext |-> ciphertext]

\* the canonical string written with the STANDARD alphabet and padding
EncryptedIntoStringStandard(e) ==
    StandardEncode(e.nonce) \o <<COLON>> \o StandardEncode(e.ciphertext)

\* impl Into<String> for Encrypted
EncryptedIntoString(e) ==
    UrlSafeNoPadEncode(e.nonce) \o <<COLON>> \o UrlSafeNoPadEncode(e.ciphertext)

\* impl TryInto<Encrypted> for String: split(':') must give exactly two parts
StringTryIntoEncrypted(s) ==
    IF Count(s, COLON) # 1 THEN Err("Base64.InvalidLength")
    ELSE
        With(IndexOf(s, COLON, 1), LAMBDA k :
        AndThen(UrlSafeNoPadDecode(SubSeq(s, 1, k - 1)), LAMBDA nonce :
        AndThen(UrlSafeNoPadDecode(SubSeq(s, k + 1, Len(s))), LAMBDA ciphertext :
            Ok(Encrypted(nonce, ciphertext)))))

(***************************************************************************)
(* AES-256-GCM (crate aes_gcm), replaced by a keyed additive stream with a *)
(* checksum tag.  Kept from the real cipher: decryption under the key and  *)
(* nonce of the encryption returns the plaintext; changing one byte of the *)
(* nonce, the ciphertext or the tag, or using another of the enumerated    *)
(* keys, fails the tag check; the ciphertext is TagLen bytes longer than   *)
(* the plaintext.                                                          *)
(***************************************************************************)
KeyLen == 32

NonceLen == 12

TagLen == 16

KeyMix(key) == (WeightedSum(key, 1) + 3 * Len(key)) % 256

AeadStream(mix, i) == (mix + 7 * i) % 256

AeadMix(key, nonce) == (KeyMix(key) + SumBytes(nonce)) % 256

\* the bytes of text moved by the key stream, forwards (dir = 1) or back (dir = -1)
AeadApply(mix, text, dir) ==
    [i \in 1..Len(text) |-> (text[i] + dir * AeadStream(mix, i)) % 256]

AeadTag(key, nonce, body) ==
    Spread((KeyMix(key) + WeightedSum(nonce, 1) + WeightedSum(body, 1) + Len(body)) % 256,
           TagLen, 13)

\* Aead::encrypt(nonce, plaintext)
AeadEncrypt(key, nonce, plaintext) ==
    With(AeadApply(AeadMix(key, nonce), plaintext, 1), LAMBDA body :
        body \o AeadTag(key, nonce, body))

\* Aead::decrypt(nonce, ciphertext): aes_gcm::Error on a short input or a tag mismatch
AeadDecrypt(key, nonce, ciphertext) ==
    IF Len(ciphertext) < TagLen THEN Err("AesGcm")
    ELSE
        With(Len(ciphertext) - TagLen, LAMBDA n :
        With(SubSeq(ciphertext, 1, n), LAMBDA body :
            IF SubSeq(ciphertext, n + 1, Len(ciphertext)) # AeadTag(key, nonce, body)
            THEN Err("AesGcm")
            ELSE Ok(AeadApply(AeadMix(key, nonce), body, -1))))

\* a panic aborts the operation: no value and no error value is returned
Panic == [ok |-> FALSE, err |-> "panic"]

(***************************************************************************)
(* encrypt::data_key::DataEncryptionKey and encrypt::master_key::MasterKey *)
(***************************************************************************)
\* String::from_utf8 of the plaintext
FromUtf8(bytes) == IF IsUtf8(bytes) THEN Ok(bytes) ELSE Err("Utf8")

\* DataEncryptionKey::encrypt (the nonce is the draw of generate_nonce)
DataKeyEncrypt(key, nonce, data) == Ok(Encrypted(nonce, AeadEncrypt(key, nonce, data)))

\* a decrypt that returns the AEAD failure error for a nonce that does not
\* have NonceLen bytes
DataKeyDecryptLengthChecked(key, encrypted) ==
    IF Len(encrypted.nonce) # NonceLen THEN Err("AesGcm")
    ELSE AndThen(AeadDecrypt(key, encrypted.nonce, encrypted.ciphertext), FromUtf8)

\* DataEncryptionKey::decrypt: GenericArray::from_slice panics unless the
\* nonce has NonceLen bytes
DataKeyDecrypt(key, encrypted) ==
    IF Len(encrypted.nonce) # NonceLen THEN Panic
    ELSE AndThen(AeadDecrypt(key, encrypted.nonce, encrypted.ciphertext), FromUtf8)

\* impl FromStr for DataEncryptionKey: GenericArray::from_slice panics
\* unless the decoded key has KeyLen bytes
DataKeyFromStr(str) ==
    AndThen(UrlSafeNoPadDecode(str), LAMBDA bytes :
        IF Len(bytes) # KeyLen THEN Panic ELSE Ok(bytes))

\* impl ToString for DataEncryptionKey
DataKeyToString(key) == UrlSafeNoPadEncode(key)

\* impl FromStr for MasterKey: Key::<Aes256Gcm>::from_slice panics unless
\* the decoded key has KeyLen bytes
MasterKeyFromStr(str) ==
    AndThen(UrlSafeNoPadDecode(str), LAMBDA bytes :
        IF Len(bytes) # KeyLen THEN Panic ELSE Ok(bytes))

\* MasterKey::encrypt
MasterKeyEncrypt(mk, nonce, data) == Ok(Encrypted(nonce, AeadEncrypt(mk, nonce, data)))

\* MasterKey::decrypt
MasterKeyDecrypt(mk, encrypted) ==
    IF Len(encrypted.nonce) # NonceLen THEN Panic
    ELSE AndThen(AeadDecrypt(mk, encrypted.nonce, encrypted.ciphertext), FromUtf8)

(***************************************************************************)
(* encrypt::Aes256Key, the data key of user.rs                             *)
(***************************************************************************)
Aes256KeyEncrypt(key, nonce, data) == Ok(Encrypted(nonce, AeadEncrypt(key, nonce, data)))

Aes256KeyDecrypt(key, encrypted) ==
    IF Len(encrypted.nonce) # NonceLen THEN Err("AesGcm")
    ELSE AndThen(AeadDecrypt(key, encrypted.nonce, encrypted.ciphertext), FromUtf8)

Aes256KeyFromStr(str) ==
    AndThen(UrlSafeNoPadDecode(str), LAMBDA bytes :
        IF Len(bytes) # KeyLen THEN Err("InvalidKeyLength") ELSE Ok(bytes))

Aes256KeyToString(key) == UrlSafeNoPadEncode(key)

(***************************************************************************)
(* client::Credentials (core/types/src/client.rs)                          *)
(***************************************************************************)
Sha256Len == 32

\* Hmac<Sha256>, replaced by a keyed checksum.  Kept: a function of key and
\* message of Sha256Len bytes; messages that differ in one byte, and the keys
\* enumerated, give different tags.
HmacSha256(key, message) ==
    Spread((3 * KeyMix(key) + WeightedSum(message, 1) + 7 * Len(message)) % 256,
           Sha256Len, 29)

\* check_authentication decoding the signature with URL_SAFE_NO_PAD
CheckSignatureUrlSafe(cred, message, signature) ==
    AndThen(UrlSafeNoPadDecode(signature), LAMBDA decoded :
        IF decoded # HmacSha256(cred.secret, message) THEN Err("InvalidSignature")
        ELSE Ok("unit"))

\* Credentials::check_authentication
CheckSignature(cred, message, signature) ==
    AndThen(StandardDecode(signature), LAMBDA decoded :
        IF decoded # HmacSha256(cred.secret, message) THEN Err("InvalidSignature")
        ELSE Ok("unit"))

\* Credentials::generate, from the 32 random bytes and the v4 UUID drawn
CredentialsGenerate(apiKey, secretBytes) ==
    [api_key |-> apiKey, secret |-> UrlSafeNoPadEncode(secretBytes)]

\* Credentials::encrypt wrapping the data key under the data key itself
CredentialsEncryptSelfWrapped(cred, mk, rnd) ==
    AndThen(DataKeyEncrypt(rnd.dk, rnd.n1, cred.secret), LAMBDA encrypted_secret :
    AndThen(MasterKeyEncrypt(rnd.dk, rnd.n2, DataKeyToString(rnd.dk)),
            LAMBDA encrypted_data_key :
        Ok([api_key |-> cred.api_key,
            encrypted_secret |-> encrypted_secret,
            encrypted_data_key |-> encrypted_data_key])))

\* Credentials::encrypt storing the secret as it is in place of its ciphertext
CredentialsEncryptPlainSecret(cred, mk, rnd) ==
    AndThen(MasterKeyEncrypt(mk, rnd.n2, DataKeyToString(rnd.dk)), LAMBDA encrypted_data_key :
        Ok([api_key |-> cred.api_key,
            encrypted_secret |-> Encrypted(rnd.n1, cred.secret),
            encrypted_data_key |-> encrypted_data_key]))

\* Credentials::encrypt; rnd = [dk, n1, n2] are the data key and the two nonces drawn
CredentialsEncrypt(cred, mk, rnd) ==
    AndThen(DataKeyEncrypt(rnd.dk, rnd.n1, cred.secret), LAMBDA encrypted_secret :
    AndThen(MasterKeyEncrypt(mk, rnd.n2, DataKeyToString(rnd.dk)),
            LAMBDA encrypted_data_key :
        Ok([api_key |-> cred.api_key,
            encrypted_secret |-> encrypted_secret,
            encrypted_data_key |-> encrypted_data_key])))

\* EncryptedCredentials::decrypt
EncryptedCredentialsDecrypt(ec, mk) ==
    AndThen(MasterKeyDecrypt(mk, ec.encrypted_data_key), LAMBDA str :
    AndThen(DataKeyFromStr(str), LAMBDA data_key :
    AndThen(DataKeyDecrypt(data_key, ec.encrypted_secret), LAMBDA secret :
        Ok([api_key |-> ec.api_key, secret |-> secret]))))

(***************************************************************************)
(* Hexadecimal text and UUIDs (crate uuid)                                 *)
(***************************************************************************)
HexLower(v) == IF v < 10 THEN 48 + v ELSE 97 + (v - 10)

HexUpper(v) == IF v < 10 THEN 48 + v ELSE 65 + (v - 10)

HexVal(c) ==
    IF c >= 48 /\ c <= 57 THEN c - 48
    ELSE IF c >= 97 /\ c <= 102 THEN c - 97 + 10
    ELSE IF c >= 65 /\ c <= 70 THEN c - 65 + 10
    ELSE -1

\* two hexadecimal digits per byte
HexEncode(bytes, upper) ==
    [j \in 1..(2 * Len(bytes)) |->
        LET b == bytes[(j + 1) \div 2]
            v == IF j % 2 = 1 THEN b \div 16 ELSE b % 16
        IN IF upper THEN HexUpper(v) ELSE HexLower(v)]

IsHex(s) == Len(s) % 2 = 0 /\ \A i \in 1..Len(s) : HexVal(s[i]) >= 0

HexDecode(s) == [i \in 1..(Len(s) \div 2) |-> HexVal(s[2 * i - 1]) * 16 + HexVal(s[2 * i])]

UuidLen == 16

HYPHEN == 45

\* Uuid::to_string: the hyphenated lower-case form, 8-4-4-4-12
UuidToString(u) ==
    With(HexEncode(u, FALSE), LAMBDA h :
        SubSeq(h, 1, 8) \o <<HYPHEN>> \o SubSeq(h, 9, 12) \o <<HYPHEN>> \o SubSeq(h, 13, 16)
            \o <<HYPHEN>> \o SubSeq(h, 17, 20) \o <<HYPHEN>> \o SubSeq(h, 21, 32))

\* Uuid::parse_str on the hyphenated and the simple form, either letter case
UuidParseStr(s) ==
    With(IF Len(s) = 2 * UuidLen + 4
            /\ s[9] = HYPHEN /\ s[14] = HYPHEN /\ s[19] = HYPHEN /\ s[24] = HYPHEN
         THEN SubSeq(s, 1, 8) \o SubSeq(s, 10, 13) \o SubSeq(s, 15, 18)
              \o SubSeq(s, 20, 23) \o SubSeq(s, 25, 36)
         ELSE s,
         LAMBDA simple :
            IF Len(simple) = 2 * UuidLen /\ IsHex(simple) THEN Some(HexDecode(simple))
            ELSE None)

\* Uuid::new_v5 (SHA-1 of namespace and name), replaced by a checksum of
\* both.  Kept: a function of the namespace and the name bytes only.
UuidNewV5(namespace, name) ==
    Spread((WeightedSum(namespace, 1) + 5 * WeightedSum(name, 1) + Len(name)) % 256,
           UuidLen, 31)

NAMESPACE_USER ==
    <<122, 28, 62, 91, 141, 47, 76, 154, 17, 34, 51, 68, 85, 102, 119, 136>>

NAMESPACE_CLIENT ==
    <<5, 64, 192, 210, 41, 171, 74, 126, 153, 30, 69, 236, 224, 13, 146, 26>>

\* impl From<&str> for UserId
UserIdFrom(str) == UuidNewV5(NAMESPACE_USER, str)

\* impl From<&str> for ClientId
ClientIdFrom(str) == UuidNewV5(NAMESPACE_CLIENT, str)

(***************************************************************************)
(* user::SigningKey, user::User (core/types/src/user.rs)                   *)
(*                                                                         *)
(* RSA-2048 with PKCS#1 v1.5 / SHA-256 (crate rsa) is replaced by a keyed  *)
(* transformation of the message.  A private key is a byte sequence; its   *)
(* public key is a function of it.  Kept: signing is deterministic, a      *)
(* signature verifies under the public key of the signing key for the      *)
(* signed message and for no other message, and the PEM forms parse back   *)
(* to the key they were written from.                                      *)
(***************************************************************************)
PEM_PRIVATE_BEGIN ==
    <<45, 45, 45, 45, 45, 66, 69, 71, 73, 78, 32, 80, 82, 73, 86, 65, 84, 69, 32,
      75, 69, 89, 45, 45, 45, 45, 45, 10>>

PEM_PRIVATE_END ==
    <<10, 45, 45, 45, 45, 45, 69, 78, 68, 32, 80, 82, 73, 86, 65, 84, 69, 32,
      75, 69, 89, 45, 45, 45, 45, 45, 10>>

PEM_PUBLIC_BEGIN ==
    <<45, 45, 45, 45, 45, 66, 69, 71, 73, 78, 32, 80, 85, 66, 76, 73, 67, 32,
      75, 69, 89, 45, 45, 45, 45, 45, 10>>

PEM_PUBLIC_END ==
    <<10, 45, 45, 45, 45, 45, 69, 78, 68, 32, 80, 85, 66, 76, 73, 67, 32,
      75, 69, 89, 45, 45, 45, 45, 45, 10>>

\* RsaPrivateKey::to_public_key
ToPublicKey(private_key) == << KeyMix(private_key), (5 * KeyMix(private_key) + 1) % 256 >>

\* RsaPrivateKey::to_pkcs8_pem(LineEnding::LF)
ToPkcs8Pem(private_key) == PEM_PRIVATE_BEGIN \o StandardEncode(private_key) \o PEM_PRIVATE_END

\* RsaPrivateKey::from_pkcs8_pem
FromPkcs8Pem(pem) ==
    IF Len(pem) < Len(PEM_PRIVATE_BEGIN) + Len(PEM_PRIVATE_END)
       \/ SubSeq(pem, 1, Len(PEM_PRIVATE_BEGIN)) # PEM_PRIVATE_BEGIN
       \/ SubSeq(pem, Len(pem) - Len(PEM_PRIVATE_END) + 1, Len(pem)) # PEM_PRIVATE_END
    THEN Err("RsaPkcs8")
    ELSE
        With(StandardDecode(SubSeq(pem, Len(PEM_PRIVATE_BEGIN) + 1,
                                   Len(pem) - Len(PEM_PRIVATE_END))),
             LAMBDA der : IF ~der.ok \/ der.val = <<>> THEN Err("RsaPkcs8") ELSE der)

\* SigningKey::public_key_pem
PublicKeyPem(private_key) ==
    PEM_PUBLIC_BEGIN \o StandardEncode(ToPublicKey(private_key)) \o PEM_PUBLIC_END

\* pkcs1v15 signature bytes of message under the key whose public key is pub
Pkcs1v15Signature(pub, message) ==
    pub \o [i \in 1..Len(message) |-> (message[i] + pub[1] + 3 * i) % 256]

\* SigningKey::sign_message: the signature's to_string is upper-case hex
SignMessage(private_key, message) ==
    HexEncode(Pkcs1v15Signature(ToPublicKey(private_key), message), TRUE)

\* VerifyingKey::verify under a public key
Pkcs1v15Verify(pub, message, signature) == signature = Pkcs1v15Signature(pub, message)

\* SigningKey::verify_signature
VerifySignature(private_key, message, signature) ==
    Ok(Pkcs1v15Verify(ToPublicKey(private_key), message, signature))

\* User::new, from the RSA key drawn
UserNew(private_key) ==
    [id |-> UserIdFrom(PublicKeyPem(private_key)), signing_key |-> private_key]

\* SigningKey::encrypt; rnd = [dk, n1, n2]
SigningKeyEncrypt(private_key, mk, rnd) ==
    AndThen(Aes256KeyEncrypt(rnd.dk, rnd.n1, ToPkcs8Pem(private_key)),
            LAMBDA encrypted_private_key :
    AndThen(MasterKeyEncrypt(mk, rnd.n2, Aes256KeyToString(rnd.dk)),
            LAMBDA encrypted_data_key :
        Ok([encrypted_private_key |-> encrypted_private_key,
            encrypted_data_key |-> encrypted_data_key])))

\* User::encrypt
UserEncrypt(user, mk, rnd) ==
    AndThen(SigningKeyEncrypt(user.signing_key, mk, rnd), LAMBDA encrypted_signing_key :
        Ok([id |-> user.id, encrypted_signing_key |-> encrypted_signing_key]))

\* EncryptedSigningKey::decrypt opening the private key under the master key
EncryptedSigningKeyDecryptUnderMaster(esk, mk) ==
    AndThen(MasterKeyDecrypt(mk, esk.encrypted_data_key), LAMBDA data_key_str :
    AndThen(Aes256KeyDecrypt(mk, esk.encrypted_private_key), LAMBDA private_pem :
        FromPkcs8Pem(private_pem)))

\* EncryptedSigningKey::decrypt
EncryptedSigningKeyDecrypt(esk, mk) ==
    AndThen(MasterKeyDecrypt(mk, esk.encrypted_data_key), LAMBDA data_key_str :
    AndThen(Aes256KeyFromStr(data_key_str), LAMBDA data_key :
    AndThen(Aes256KeyDecrypt(data_key, esk.encrypted_private_key), LAMBDA private_pem :
        FromPkcs8Pem(private_pem))))

\* EncryptedUser::decrypt
EncryptedUserDecrypt(eu, mk) ==
    AndThen(EncryptedSigningKeyDecrypt(eu.encrypted_signing_key, mk), LAMBDA signing_key :
        Ok([id |-> eu.id, signing_key |-> signing_key]))

(***************************************************************************)
(* Wallet plane: requests, routing (wallet/src/server.rs)                  *)
(***************************************************************************)
POST == <<80, 79, 83, 84>>

DELETE == <<68, 69, 76, 69, 84, 69>>

GET == <<71, 69, 84>>

SLASH == 47

SEG_WALLET == <<119, 97, 108, 108, 101, 116>>

SEG_REGISTER == <<114, 101, 103, 105, 115, 116, 101, 114>>

SEG_SIGN == <<115, 105, 103, 110>>

SEG_REVOKE == <<114, 101, 118, 111, 107, 101>>

RECURSIVE SplitFrom(_, _, _)
\* str::split(sep) of s[i..]
SplitFrom(s, sep, i) ==
    With(IndexOf(s, sep, i), LAMBDA k :
        IF k = 0 THEN << SubSeq(s, i, Len(s)) >>
        ELSE << SubSeq(s, i, k - 1) >> \o SplitFrom(s, sep, k + 1))

\* the resource a request is dispatched to: the three resources in
\* registration order, each with one method, then the default service
Dispatch(method, path) ==
    With(SplitFrom(path, SLASH, 1), LAMBDA seg :
        IF Len(seg) = 3 /\ seg[1] = <<>> /\ seg[2] = SEG_WALLET /\ seg[3] = SEG_REGISTER
        THEN (IF method = POST THEN "register" ELSE "method_not_allowed")
        ELSE IF Len(seg) = 4 /\ seg[1] = <<>> /\ seg[2] = SEG_WALLET /\ seg[3] # <<>>
                /\ seg[4] = SEG_SIGN
        THEN (IF method = POST THEN "sign" ELSE "method_not_allowed")
        ELSE IF Len(seg) = 4 /\ seg[1] = <<>> /\ seg[2] = SEG_WALLET /\ seg[3] # <<>>
                /\ seg[4] = SEG_REVOKE
        THEN (IF method = DELETE THEN "revoke" ELSE "method_not_allowed")
        ELSE "not_found")

\* the {user_id} segment of a sign or revoke path
UserIdSegment(path) == SplitFrom(path, SLASH, 1)[3]

\* Path<UserId>: the segment deserialized as a UUID
PathUserId(path) == UuidParseStr(UserIdSegment(path))

QUOTE == 34

BACKSLASH == 92

\* Json<String>: the body deserialized as a JSON string (without escapes)
JsonString(body) ==
    IF Len(body) >= 2 /\ body[1] = QUOTE /\ body[Len(body)] = QUOTE
       /\ \A i \in 2..(Len(body) - 1) :
            body[i] # QUOTE /\ body[i] # BACKSLASH /\ body[i] >= 32 /\ body[i] < 128
    THEN Some(SubSeq(body, 2, Len(body) - 1))
    ELSE None

(***************************************************************************)
(* Authentication middleware (wallet/src/middleware/auth.rs)               *)
(***************************************************************************)
U64_MAX == <<49, 56, 52, 52, 54, 55, 52, 52, 48, 55, 51, 55, 48, 57, 53, 53, 49, 54, 49, 53>>

IsDigit(c) == c >= 48 /\ c <= 57

RECURSIVE StripZeros(_)
StripZeros(s) == IF Len(s) > 1 /\ s[1] = 48 THEN StripZeros(Tail(s)) ELSE s

RECURSIVE LexLeq(_, _, _)
\* a <= b for digit strings of equal length, from position i
LexLeq(a, b, i) ==
    IF i > Len(a) THEN TRUE
    ELSE IF a[i] < b[i] THEN TRUE
    ELSE IF a[i] > b[i] THEN FALSE
    ELSE LexLeq(a, b, i + 1)

\* str::parse::<u64>: an optional '+', then one or more digits, at most
\* u64::MAX.  The value is kept as its decimal numeral, which is what
\* format!("{}", u64) writes.
ParseU64(str) ==
    With(IF Len(str) > 0 /\ str[1] = 43 THEN Tail(str) ELSE str, LAMBDA digits :
        IF digits = <<>> \/ \E i \in 1..Len(digits) : ~IsDigit(digits[i]) THEN None
        ELSE
            With(StripZeros(digits), LAMBDA numeral :
                IF Len(numeral) > Len(U64_MAX) THEN None
                ELSE IF Len(numeral) = Len(U64_MAX) /\ ~LexLeq(numeral, U64_MAX, 1) THEN None
                ELSE Some(numeral)))

\* HeaderValue::to_str: visible ASCII only
HeaderToStr(h) ==
    IF h.some /\ \A i \in 1..Len(h.val) : h.val[i] >= 32 /\ h.val[i] < 127 THEN h ELSE None

\* a from_request that compares the timestamp with a clock: a value of fewer
\* than ten digits is older than any window
FromRequestFreshTimestamp(req) ==
    AndThen(OkOrElse(OptAndThen(OptAndThen(HeaderToStr(req.ts), ParseU64),
                                LAMBDA t : IF Len(t) < 10 THEN None ELSE Some(t)),
                     "Missing or invalid x-timestamp header"), LAMBDA timestamp :
    AndThen(OkOrElse(OptAndThen(HeaderToStr(req.key), UuidParseStr),
                     "Missing or invalid x-api-key header"), LAMBDA api_key :
    AndThen(OkOrElse(HeaderToStr(req.sig),
                     "Missing or invalid x-signature header"), LAMBDA signature :
        Ok([api_key |-> api_key,
            signature |-> signature,
            timestamp |-> timestamp,
            http_method |-> req.method,
            request_path |-> req.path,
            request_query |-> req.query,
            request_body |-> IF IsUtf8(req.body) THEN Some(req.body) ELSE None]))))

\* a from_request that keeps the body bytes as the signed text whether or not
\* they are UTF-8
FromRequestRawBody(req) ==
    AndThen(OkOrElse(OptAndThen(HeaderToStr(req.ts), ParseU64),
                     "Missing or invalid x-timestamp header"), LAMBDA timestamp :
    AndThen(OkOrElse(OptAndThen(HeaderToStr(req.key), UuidParseStr),
                     "Missing or invalid x-api-key header"), LAMBDA api_key :
    AndThen(OkOrElse(HeaderToStr(req.sig),
                     "Missing or invalid x-signature header"), LAMBDA signature :
        Ok([api_key |-> api_key,
            signature |-> signature,
            timestamp |-> timestamp,
            http_method |-> req.method,
            request_path |-> req.path,
            request_query |-> req.query,
            request_body |-> Some(req.body)]))))

\* AuthData::from_request
FromRequest(req) ==
    AndThen(OkOrElse(OptAndThen(HeaderToStr(req.ts), ParseU64),
                     "Missing or invalid x-timestamp header"), LAMBDA timestamp :
    AndThen(OkOrElse(OptAndThen(HeaderToStr(req.key), UuidParseStr),
                     "Missing or invalid x-api-key header"), LAMBDA api_key :
    AndThen(OkOrElse(HeaderToStr(req.sig),
                     "Missing or invalid x-signature header"), LAMBDA signature :
        Ok([api_key |-> api_key,
            signature |-> signature,
            timestamp |-> timestamp,
            http_method |-> req.method,
            request_path |-> req.path,
            request_query |-> req.query,
            request_body |-> IF IsUtf8(req.body) THEN Some(req.body) ELSE None]))))

\* the format! call with the path written before the method
CanonicalMessagePathFirst(auth) ==
    auth.timestamp \o auth.request_path \o auth.http_method \o auth.request_query
        \o (IF auth.request_body.some THEN auth.request_body.val ELSE <<>>)

\* a format! call that marks where the query begins: a '?' before a query
\* that is not empty
CanonicalMessageQueryMarked(auth) ==
    auth.timestamp \o auth.http_method \o auth.request_path
        \o (IF auth.request_query = <<>> THEN <<>> ELSE <<63>> \o auth.request_query)
        \o (IF auth.request_body.some THEN auth.request_body.val ELSE <<>>)

\* the message of AuthData::check_authentication (the format! call)
CanonicalMessage(auth) ==
    auth.timestamp \o auth.http_method \o auth.request_path \o auth.request_query
        \o (IF auth.request_body.some THEN auth.request_body.val ELSE <<>>)

(***************************************************************************)
(* Storage (repositories/postgres/src/wallet.rs, client.rs).  The text     *)
(* columns hold the canonical strings of the Encrypted values.             *)
(***************************************************************************)
\* Decode<Postgres> for Encrypted, for both ciphertext columns of a row
DecodeColumns(a, b) ==
    AndThen(MapErr(StringTryIntoEncrypted(a), "storage"), LAMBDA x :
    AndThen(MapErr(StringTryIntoEncrypted(b), "storage"), LAMBDA y :
        Ok(<<x, y>>)))

\* WalletRepository::get_credentials
GetCredentials(creds, api_key, dbUp) ==
    IF ~dbUp THEN Err("storage")
    ELSE IF \A c \in creds : c.api_key # api_key THEN Ok(None)
    ELSE
        With(CHOOSE c \in creds : c.api_key = api_key, LAMBDA row :
        AndThen(DecodeColumns(row.encrypted_secret, row.encrypted_data_key), LAMBDA cols :
            Ok(Some([api_key |-> row.api_key,
                     encrypted_secret |-> cols[1],
                     encrypted_data_key |-> cols[2]]))))

\* users(id) is the primary key of the users table
UsersPrimaryKeyFree(usrs, id) == \A u \in usrs : u.id # id

\* the rows WalletRepository::register_user inserts: one per credentials row
\* with the api key
RegisterUserRows(creds, api_key, eu) ==
    { [id |-> eu.id,
       client_id |-> c.client_id,
       encrypted_private_key |-> EncryptedIntoString(eu.encrypted_signing_key.encrypted_private_key),
       encrypted_data_key |-> EncryptedIntoString(eu.encrypted_signing_key.encrypted_data_key)]
      : c \in {c \in creds : c.api_key = api_key} }

\* a register_user that inserts the values it was given, the api key in the
\* place of the client id, without reading the credentials table
RegisterUserDbUnchecked(usrs, creds, api_key, eu, dbUp) ==
    IF ~dbUp \/ ~UsersPrimaryKeyFree(usrs, eu.id)
    THEN [res |-> Err("storage"), users |-> usrs]
    ELSE [res |-> Ok("unit"),
          users |-> usrs \cup
              { [id |-> eu.id,
                 client_id |-> api_key,
                 encrypted_private_key |->
                     EncryptedIntoString(eu.encrypted_signing_key.encrypted_private_key),
                 encrypted_data_key |->
                     EncryptedIntoString(eu.encrypted_signing_key.encrypted_data_key)] }]

\* WalletRepository::register_user: the result and the users table after it
RegisterUserDb(usrs, creds, api_key, eu, dbUp) ==
    IF ~dbUp THEN [res |-> Err("storage"), users |-> usrs]
    ELSE
        With(RegisterUserRows(creds, api_key, eu), LAMBDA rows :
            IF rows # {} /\ ~UsersPrimaryKeyFree(usrs, eu.id)
            THEN [res |-> Err("storage"), users |-> usrs]
            ELSE IF rows = {} THEN [res |-> Err("User was not created"), users |-> usrs]
            ELSE [res |-> Ok("unit"), users |-> usrs \cup rows])

\* WalletRepository::get_user
GetUser(usrs, creds, user_id, dbUp) ==
    IF ~dbUp THEN Err("storage")
    ELSE
        With({u \in usrs : u.id = user_id /\ \E c \in creds : c.client_id = u.client_id},
             LAMBDA rows :
            IF rows = {} THEN Ok(None)
            ELSE
                With(CHOOSE u \in rows : TRUE, LAMBDA row :
                AndThen(DecodeColumns(row.encrypted_private_key, row.encrypted_data_key),
                        LAMBDA cols :
                    Ok(Some([id |-> row.id,
                             encrypted_signing_key |->
                                 [encrypted_private_key |-> cols[1],
                                  encrypted_data_key |-> cols[2]]])))))

\* a delete_user without its WHERE clause
DeleteUserAll(usrs, user_id, dbUp) ==
    IF ~dbUp THEN [res |-> Err("storage"), users |-> usrs]
    ELSE [res |-> Ok("unit"), users |-> {}]

\* WalletRepository::delete_user
DeleteUser(usrs, user_id, dbUp) ==
    IF ~dbUp THEN [res |-> Err("storage"), users |-> usrs]
    ELSE [res |-> Ok("unit"), users |-> {u \in usrs : u.id # user_id}]

\* clients(id) is the primary key, clients(name) and credentials(api_key) are unique
ClientInsertAllowed(clts, creds, ec) ==
    /\ \A c \in clts : c.id # ec.id /\ c.name # ec.name
    /\ \A c \in creds : c.api_key # ec.credentials.api_key

\* a create that replaces the rows stored under the id of the client
ClientCreateReplacing(clts, creds, ec, dbUp) ==
    IF ~dbUp THEN [res |-> Err("storage"), clients |-> clts, credentials |-> creds]
    ELSE [res |-> Ok("unit"),
          clients |-> {c \in clts : c.id # ec.id} \cup {[id |-> ec.id, name |-> ec.name]},
          credentials |-> {c \in creds : c.client_id # ec.id} \cup
              {[client_id |-> ec.id,
                api_key |-> ec.credentials.api_key,
                encrypted_secret |-> EncryptedIntoString(ec.credentials.encrypted_secret),
                encrypted_data_key |-> EncryptedIntoString(ec.credentials.encrypted_data_key)]}]

\* a create of two statements: the clients row stays when the insert of the
\* credentials row fails
ClientCreateClientFirst(clts, creds, ec, dbUp) ==
    IF ~dbUp \/ \E c \in clts : c.id = ec.id \/ c.name = ec.name
    THEN [res |-> Err("storage"), clients |-> clts, credentials |-> creds]
    ELSE IF \E c \in creds : c.api_key = ec.credentials.api_key
    THEN [res |-> Err("storage"),
          clients |-> clts \cup {[id |-> ec.id, name |-> ec.name]},
          credentials |-> creds]
    ELSE [res |-> Ok("unit"),
          clients |-> clts \cup {[id |-> ec.id, name |-> ec.name]},
          credentials |-> creds \cup
              {[client_id |-> ec.id,
                api_key |-> ec.credentials.api_key,
                encrypted_secret |-> EncryptedIntoString(ec.credentials.encrypted_secret),
                encrypted_data_key |-> EncryptedIntoString(ec.credentials.encrypted_data_key)]}]

\* ClientRepository::create: one statement inserts both rows
ClientCreate(clts, creds, ec, dbUp) ==
    IF ~dbUp \/ ~ClientInsertAllowed(clts, creds, ec)
    THEN [res |-> Err("storage"), clients |-> clts, credentials |-> creds]
    ELSE [res |-> Ok("unit"),
          clients |-> clts \cup {[id |-> ec.id, name |-> ec.name]},
          credentials |-> creds \cup
              {[client_id |-> ec.id,
                api_key |-> ec.credentials.api_key,
                encrypted_secret |-> EncryptedIntoString(ec.credentials.encrypted_secret),
                encrypted_data_key |-> EncryptedIntoString(ec.credentials.encrypted_data_key)]}]

\* a find that returns a stored client whatever id is asked for
ClientFindAny(clts, creds, client_id, dbUp) ==
    IF ~dbUp THEN Err("storage")
    ELSE IF clts = {} \/ creds = {} THEN Ok(None)
    ELSE
        With(CHOOSE c \in creds : TRUE, LAMBDA row :
        With(CHOOSE c \in clts : c.id = row.client_id, LAMBDA client :
            Ok(Some([id |-> client.id, name |-> client.name,
                     credentials |-> [api_key |-> row.api_key]]))))

\* ClientRepository::find: clients joined with credentials, WHERE clients.id = $1
ClientFind(clts, creds, client_id, dbUp) ==
    IF ~dbUp THEN Err("storage")
    ELSE IF \A c \in clts : c.id # client_id \/ \A k \in creds : k.client_id # c.id
    THEN Ok(None)
    ELSE
        With(CHOOSE c \in clts : c.id = client_id /\ \E k \in creds : k.client_id = c.id,
             LAMBDA client :
        With(CHOOSE k \in creds : k.client_id = client.id, LAMBDA row :
        AndThen(DecodeColumns(row.encrypted_secret, row.encrypted_data_key), LAMBDA cols :
            Ok(Some([id |-> client.id, name |-> client.name,
                     credentials |-> [api_key |-> row.api_key,
                                      encrypted_secret |-> cols[1],
                                      encrypted_data_key |-> cols[2]]])))))

\* ClientRepository::find_by_name (the default method of the trait)
ClientFindByName(clts, creds, name, dbUp) == ClientFind(clts, creds, ClientIdFrom(name), dbUp)

\* Client::new, from the credentials drawn
ClientNew(name, cred) == [id |-> ClientIdFrom(name), name |-> name, credentials |-> cred]

\* Client::encrypt
ClientEncrypt(client, mk, rnd) ==
    AndThen(CredentialsEncrypt(client.credentials, mk, rnd), LAMBDA encrypted_credentials :
        Ok([id |-> client.id, name |-> client.name, credentials |-> encrypted_credentials]))

(***************************************************************************)
(* Bounds and the values the random draws and the requests are taken from  *)
(***************************************************************************)
(***************************************************************************)
(* Secret wrappers: core/types/src/redact.rs (used by client.rs and        *)
(* wallet/src/routes.rs) and core/types/src/secret.rs with api_key.rs      *)
(* (used by admin/src/routes.rs and the wallet middleware)                 *)
(***************************************************************************)
REDACTED == <<91, 82, 69, 68, 65, 67, 84, 69, 68, 93>>

STARS == <<42, 42, 42>>

RECURSIVE JsonEscapeFrom(_, _)
\* the characters of s from position i on, '"' and '\' escaped
JsonEscapeFrom(s, i) ==
    IF i > Len(s) THEN <<>>
    ELSE (IF s[i] \in {QUOTE, BACKSLASH} THEN <<BACKSLASH, s[i]>> ELSE <<s[i]>>)
         \o JsonEscapeFrom(s, i + 1)

\* Serializer::serialize_str of serde_json
ToJsonString(s) == <<QUOTE>> \o JsonEscapeFrom(s, 1) \o <<QUOTE>>

\* redact::Redacted: Debug and Display
RedactedFmt(value) == REDACTED

\* redact::Redacted: #[derive(Serialize)] #[serde(transparent)] over a String
RedactedSerialize(value) == ToJsonString(value)

\* redact::Redacted::inner_ref
RedactedInnerRef(value) == value

\* secret::redact::Redacted: Debug and Display
SecretRedactedFmt(value) == REDACTED

\* secret::redact::Redacted: impl Serialize
SecretRedactedSerialize(value) == ToJsonString(REDACTED)

\* secret::redact::Redacted::expose
SecretRedactedExpose(value) == value

\* impl Maskable for client::ApiKey
ClientApiKeyMask(api_key) == SubSeq(UuidToString(api_key), 1, 3) \o <<91>> \o STARS \o <<93>>

\* impl Maskable for api_key::ApiKey
ApiKeyMask(api_key) == SubSeq(UuidToString(api_key), 1, 3) \o STARS

\* impl Serialize for api_key::ApiKey, and client::ApiKey's transparent Uuid
ApiKeySerialize(api_key) == ToJsonString(UuidToString(api_key))

\* redact::Masked over client::ApiKey: Debug and Display
MaskedFmt(api_key) == ClientApiKeyMask(api_key)

\* redact::Masked: #[derive(Serialize)] #[serde(transparent)]
MaskedSerialize(api_key) == ApiKeySerialize(api_key)

\* secret::mask::Masked over api_key::ApiKey: Debug and Display
SecretMaskedFmt(api_key) == ApiKeyMask(api_key)

\* secret::mask::Masked: impl Serialize
SecretMaskedSerialize(api_key) == ToJsonString(ApiKeyMask(api_key))

\* secret::mask::expose_masked
ExposeMasked(api_key) == ApiKeySerialize(api_key)

\* #[derive(PartialEq)] of Credentials over Masked<ApiKey> and Redacted<String>,
\* both of which derive PartialEq
CredentialsEq(a, b) == a.api_key = b.api_key /\ a.secret = b.secret

\* a serialization of Client that writes the secret as secret::redact::Redacted does
ClientSerializeRedacted(client) ==
    <<123, 34, 105, 100, 34, 58>> \o ToJsonString(UuidToString(client.id))
    \o <<44, 34, 110, 97, 109, 101, 34, 58>> \o ToJsonString(client.name)
    \o <<44, 34, 99, 114, 101, 100, 101, 110, 116, 105, 97, 108, 115, 34, 58>>
    \o <<123, 34, 97, 112, 105, 95, 107, 101, 121, 34, 58>> \o MaskedSerialize(client.credentials.api_key)
    \o <<44, 34, 115, 101, 99, 114, 101, 116, 34, 58>> \o SecretRedactedSerialize(client.credentials.secret)
    \o <<125, 125>>

\* serde_json of Client (#[derive(Serialize)]):
\* {"id":..,"name":..,"credentials":{"api_key":..,"secret":..}}
ClientSerialize(client) ==
    <<123, 34, 105, 100, 34, 58>> \o ToJsonString(UuidToString(client.id))
    \o <<44, 34, 110, 97, 109, 101, 34, 58>> \o ToJsonString(client.name)
    \o <<44, 34, 99, 114, 101, 100, 101, 110, 116, 105, 97, 108, 115, 34, 58>>
    \o <<123, 34, 97, 112, 105, 95, 107, 101, 121, 34, 58>> \o MaskedSerialize(client.credentials.api_key)
    \o <<44, 34, 115, 101, 99, 114, 101, 116, 34, 58>> \o RedactedSerialize(client.credentials.secret)
    \o <<125, 125>>

\* serde_json of GetClientResponse: {"name":..,"api_key":..}
GetClientResponseSerialize(name, api_key) ==
    <<123, 34, 110, 97, 109, 101, 34, 58>> \o ToJsonString(name)
    \o <<44, 34, 97, 112, 105, 95, 107, 101, 121, 34, 58>> \o SecretMaskedSerialize(api_key)
    \o <<125>>

MaxClients == 1

MaxUsers == 1

Slots == {1}

\* the master key of the configuration (Config.master_key)
MasterKeyCfg == [i \in 1..KeyLen |-> (5 * i + 2) % 256]

\* Aes256Gcm::generate_key
DataKey(s) == [i \in 1..KeyLen |-> (s * i + 1) % 256]

DataKeys == { DataKey(7), DataKey(11) }

\* Aes256Gcm::generate_nonce
Nonce(s) == [i \in 1..NonceLen |-> (s + i) % 256]

Nonces == { Nonce(0), Nonce(100) }

\* the 32 random bytes of Credentials::generate
SecretBytes(s) == [i \in 1..Sha256Len |-> (s * i + 3) % 256]

\* Uuid::new_v4
ApiKey(s) == [i \in 1..UuidLen |-> (s * i) % 256]

\* what one run of create_client draws: the api key and secret of
\* Credentials::generate, and the data key and nonces of Client::encrypt
CredentialDraws ==
    { [api_key |-> ApiKey(3), secret |-> SecretBytes(13),
       rnd |-> [dk |-> DataKey(7), n1 |-> Nonce(0), n2 |-> Nonce(100)]],
      [api_key |-> ApiKey(21), secret |-> SecretBytes(17),
       rnd |-> [dk |-> DataKey(11), n1 |-> Nonce(100), n2 |-> Nonce(0)]] }

\* RsaPrivateKey::new
PrivateKeys == { <<1, 2, 3>>, <<9, 8, 7>> }

\* what one run of register_user draws: the private key of User::new, and
\* the data key and nonces of User::encrypt
UserDraws ==
    { [private_key |-> <<1, 2, 3>>,
       rnd |-> [dk |-> DataKey(11), n1 |-> Nonce(0), n2 |-> Nonce(100)]],
      [private_key |-> <<9, 8, 7>>,
       rnd |-> [dk |-> DataKey(7), n1 |-> Nonce(100), n2 |-> Nonce(0)]] }

\* client names: "acme", "bob"
Names == { <<97, 99, 109, 101>>, <<98, 111, 98>> }

(***************************************************************************)
(* Requests a client sends                                                 *)
(***************************************************************************)
HELLO_JSON == <<34, 104, 101, 108, 108, 111, 34>>

\* the api key and secret a client holds
Signers == { CredentialsGenerate(d.api_key, d.secret) : d \in CredentialDraws }

UserIds == { UserNew(k).id : k \in PrivateKeys }

PathRegister == <<SLASH>> \o SEG_WALLET \o <<SLASH>> \o SEG_REGISTER

PathSign(u) == <<SLASH>> \o SEG_WALLET \o <<SLASH>> \o UuidToString(u) \o <<SLASH>> \o SEG_SIGN

PathRevoke(u) == <<SLASH>> \o SEG_WALLET \o <<SLASH>> \o UuidToString(u) \o <<SLASH>> \o SEG_REVOKE

RegisterCall == [method |-> POST, path |-> PathRegister, body |-> <<>>]

SignCall(u) == [method |-> POST, path |-> PathSign(u), body |-> HELLO_JSON]

RevokeCall(u) == [method |-> DELETE, path |-> PathRevoke(u), body |-> <<>>]

\* method, path and body of the calls a client makes
Calls ==
    { RegisterCall,
      [method |-> GET, path |-> PathRegister, body |-> <<>>],
      [method |-> GET, path |-> <<SLASH>> \o SEG_WALLET, body |-> <<>>] }
    \cup { SignCall(u) : u \in UserIds }
    \cup { RevokeCall(u) : u \in UserIds }

TS_7 == <<55>>

\* the message a client signs: the timestamp and the request parts
ClientMessage(ts, method, path, query, body) == ts \o method \o path \o query \o body

ClientSignature(secret, message) == StandardEncode(HmacSha256(secret, message))

\* a correctly built request of the client holding the credentials c
SignedRequest(call, c) ==
    [method |-> call.method, path |-> call.path, query |-> <<>>, body |-> call.body,
     ts |-> Some(TS_7),
     key |-> Some(UuidToString(c.api_key)),
     sig |-> Some(ClientSignature(c.secret,
                    ClientMessage(TS_7, call.method, call.path, <<>>, call.body)))]

Deviations ==
    { "no_ts", "bad_ts", "no_key", "bad_key", "no_sig", "bad_sig", "not_base64_sig",
      "other_secret", "other_body", "binary_body", "query", "bad_json", "padded_ts" }

\* the request q of the client holding c with one part changed
Deviate(q, d, c) ==
    CASE d = "no_ts" -> [q EXCEPT !.ts = None]
      [] d = "bad_ts" -> [q EXCEPT !.ts = Some(<<55, 120>>)]
      [] d = "no_key" -> [q EXCEPT !.key = None]
      [] d = "bad_key" -> [q EXCEPT !.key = Some(SubSeq(q.key.val, 1, 8))]
      [] d = "no_sig" -> [q EXCEPT !.sig = None]
      [] d = "bad_sig" -> [q EXCEPT !.sig = Some(FlipBitAt(q.sig.val, 1, 0))]
      [] d = "not_base64_sig" -> [q EXCEPT !.sig = Some([q.sig.val EXCEPT ![1] = 33])]
      [] d = "other_secret" ->
            [q EXCEPT !.sig = Some(ClientSignature(<<97, 98, 99>>,
                         ClientMessage(TS_7, q.method, q.path, q.query, q.body)))]
      [] d = "other_body" -> [q EXCEPT !.body = <<34, 104, 105, 34>>]
      [] d = "binary_body" ->
            [q EXCEPT !.body = <<255>>,
                      !.sig = Some(ClientSignature(c.secret,
                                 ClientMessage(TS_7, q.method, q.path, q.query, <<>>)))]
      [] d = "query" ->
            [q EXCEPT !.query = <<97, 61, 49>>,
                      !.sig = Some(ClientSignature(c.secret,
                                 ClientMessage(TS_7, q.method, q.path, <<97, 61, 49>>, q.body)))]
      [] d = "padded_ts" -> [q EXCEPT !.ts = Some(<<43, 48, 55>>)]
      [] d = "bad_json" ->
            [q EXCEPT !.body = <<104, 105>>,
                      !.sig = Some(ClientSignature(c.secret,
                                 ClientMessage(TS_7, q.method, q.path, q.query, <<104, 105>>)))]

\* the requests: every call correctly signed by every client, and the
\* deviations of one client's register and sign calls
Requests ==
    { SignedRequest(call, c) : call \in Calls, c \in Signers }
    \cup { Deviate(SignedRequest(call, c), d, c) :
             call \in {RegisterCall} \cup {SignCall(u) : u \in {UserNew(<<1, 2, 3>>).id}},
             c \in {CredentialsGenerate(ApiKey(3), SecretBytes(13))},
             d \in Deviations }

(***************************************************************************)
(* AuthData::check_authentication and AuthMiddleware::call                 *)
(***************************************************************************)
\* AuthData::check_authentication: its result, and how far it got
CheckAuthentication(auth, creds, mk, dbUp) ==
    With(GetCredentials(creds, auth.api_key, dbUp), LAMBDA found :
        IF ~found.ok
        THEN [res |-> found, dbCred |-> "error", decrypted |-> FALSE, hmacKey |-> <<>>,
              hmacMsg |-> <<>>]
        ELSE IF ~found.val.some
        THEN [res |-> Err("Invalid API key"), dbCred |-> "none", decrypted |-> FALSE,
              hmacKey |-> <<>>, hmacMsg |-> <<>>]
        ELSE
            With(EncryptedCredentialsDecrypt(found.val.val, mk), LAMBDA cred :
                IF ~cred.ok
                THEN [res |-> cred, dbCred |-> "found", decrypted |-> FALSE,
                      hmacKey |-> <<>>, hmacMsg |-> <<>>]
                ELSE
                    With(CanonicalMessage(auth), LAMBDA message :
                        [res |-> CheckSignature(cred.val, message, auth.signature),
                         dbCred |-> "found", decrypted |-> TRUE,
                         hmacKey |-> cred.val.secret, hmacMsg |-> message])))

\* a middleware that answers 401 to a signature mismatch only
AuthFailureStatusBySort(res) == IF res.err = "InvalidSignature" THEN 401 ELSE 500

\* the status AuthMiddleware::call answers with when it does not call the
\* inner service: every Err of from_request and of check_authentication
AuthFailureStatus(res) == 401

NoRequest ==
    [method |-> <<>>, path |-> <<>>, query |-> <<>>, body |-> <<>>,
     ts |-> None, key |-> None, sig |-> None]

NoResponse == [user_id |-> <<>>, pub_key |-> <<>>, message |-> <<>>, signature |-> <<>>]

\* a connection slot: the request, how far the middleware got with it (the
\* key and the message it computed the HMAC of), what the inner service did,
\* and the response
Idle ==
    [pc |-> "idle", req |-> NoRequest,
     parsed |-> FALSE, dbCred |-> "not_asked", decrypted |-> FALSE, verified |-> FALSE,
     hmacKey |-> <<>>, hmacMsg |-> <<>>, authErr |-> "",
     handlerRan |-> FALSE, route |-> "none", dbUser |-> "not_asked",
     payload |-> <<>>, status |-> 0, resp |-> NoResponse]

\* a middleware that calls the inner service whatever check_authentication returned
AuthMiddlewareCallAnyResult(slot, creds, mk, dbUp) ==
    With(FromRequest(slot.req), LAMBDA auth_data :
        IF ~auth_data.ok
        THEN [slot EXCEPT !.pc = "done", !.authErr = auth_data.err,
                          !.status = AuthFailureStatus(auth_data)]
        ELSE
            With(CheckAuthentication(auth_data.val, creds, mk, dbUp), LAMBDA chk :
                [slot EXCEPT !.parsed = TRUE, !.dbCred = chk.dbCred,
                             !.decrypted = chk.decrypted, !.hmacKey = chk.hmacKey,
                             !.hmacMsg = chk.hmacMsg, !.payload = slot.req.body,
                             !.pc = "admitted", !.verified = chk.res.ok]))

\* AuthMiddleware::call up to the call of the inner service: the slot after it
AuthMiddlewareCall(slot, creds, mk, dbUp) ==
    With(FromRequest(slot.req), LAMBDA auth_data :
        IF ~auth_data.ok
        THEN [slot EXCEPT !.pc = "done", !.authErr = auth_data.err,
                          !.status = AuthFailureStatus(auth_data)]
        ELSE
            With(CheckAuthentication(auth_data.val, creds, mk, dbUp), LAMBDA chk :
            With([slot EXCEPT !.parsed = TRUE, !.dbCred = chk.dbCred,
                              !.decrypted = chk.decrypted, !.hmacKey = chk.hmacKey,
                              !.hmacMsg = chk.hmacMsg, !.payload = slot.req.body],
                 LAMBDA seen :
                IF chk.res.ok THEN [seen EXCEPT !.pc = "admitted", !.verified = TRUE]
                ELSE IF chk.res = Panic THEN [seen EXCEPT !.pc = "done", !.authErr = "panic"]
                ELSE [seen EXCEPT !.pc = "done", !.authErr = chk.res.err,
                                  !.status = AuthFailureStatus(chk.res)])))

(***************************************************************************)
(* The specification of the two services                                   *)
(***************************************************************************)
Init ==
    /\ credentials = {}
    /\ clients = {}
    /\ users = {}
    /\ reqs = [r \in Slots |-> Idle]
    /\ tampered = FALSE
    /\ fin = [f |-> "none"]
    /\ fout = [f |-> "none"]

\* Client::new in create_client, for each name and draw
NewClient ==
    [name \in Names, draw \in CredentialDraws |->
        ClientNew(name, CredentialsGenerate(draw.api_key, draw.secret))]

\* Client::new and Client::encrypt in create_client, for each name and draw
NewEncryptedClient ==
    [name \in Names, draw \in CredentialDraws |->
        ClientEncrypt(NewClient[name, draw], MasterKeyCfg, draw.rnd)]

\* User::new and User::encrypt in register_user, for each draw
NewEncryptedUser ==
    [draw \in UserDraws |-> UserEncrypt(UserNew(draw.private_key), MasterKeyCfg, draw.rnd)]

\* HttpResponse::Created().json(client), for each name and draw
NewClientJson == [name \in Names, draw \in CredentialDraws |-> ClientSerialize(NewClient[name, draw])]

\* POST /admin/client (admin/src/routes.rs create_client): the response and
\* the storage after it
CreateClientOutcome(clts, creds, name, draw, dbUp) ==
    With(NewEncryptedClient[name, draw], LAMBDA encrypted_client :
        IF ~encrypted_client.ok
        THEN [status |-> 500, body |-> <<>>, clients |-> clts, credentials |-> creds]
        ELSE
            With(ClientCreate(clts, creds, encrypted_client.val, dbUp), LAMBDA stored :
                IF stored.res.ok
                THEN [status |-> 201, body |-> NewClientJson[name, draw],
                      clients |-> stored.clients, credentials |-> stored.credentials]
                ELSE [status |-> 500, body |-> <<>>,
                      clients |-> stored.clients, credentials |-> stored.credentials]))

\* GET /admin/client (admin/src/routes.rs get_client): the response
GetClientOutcome(clts, creds, name, dbUp) ==
    With(ClientFindByName(clts, creds, name, dbUp), LAMBDA found :
        IF ~found.ok THEN [status |-> 500, body |-> <<>>]
        ELSE IF ~found.val.some THEN [status |-> 404, body |-> <<>>]
        ELSE [status |-> 200,
              body |-> GetClientResponseSerialize(found.val.val.name,
                                                  found.val.val.credentials.api_key)])

\* a POST /admin/client is handled
CreateClient(name, draw, dbUp) ==
    /\ \E out \in {CreateClientOutcome(clients, credentials, name, draw, dbUp)} :
        /\ out.status = 201 => Cardinality(clients) < MaxClients
        /\ clients' = out.clients
        /\ credentials' = out.credentials
    /\ UNCHANGED <<users, reqs, tampered, fin, fout>>

\* a GET /admin/client is handled: storage is read only
GetClient(name, dbUp) ==
    /\ GetClientOutcome(clients, credentials, name, dbUp).status \in {200, 404, 500}
    /\ UNCHANGED vars

\* a request arrives on a free connection
Receive(r, q) ==
    /\ reqs[r].pc = "idle"
    /\ reqs' = [reqs EXCEPT ![r] = [Idle EXCEPT !.pc = "received", !.req = q]]
    /\ UNCHANGED <<credentials, clients, users, tampered, fin, fout>>

\* AuthMiddleware::call
Authenticate(r, dbUp) ==
    /\ reqs[r].pc = "received"
    /\ reqs' = [reqs EXCEPT ![r] = AuthMiddlewareCall(reqs[r], credentials, MasterKeyCfg, dbUp)]
    /\ UNCHANGED <<credentials, clients, users, tampered, fin, fout>>

\* the default service and a resource without a route for the method
DefaultService(r) ==
    /\ reqs[r].pc = "admitted"
    /\ \E route \in {Dispatch(reqs[r].req.method, reqs[r].req.path)} :
        /\ route \in {"not_found", "method_not_allowed"}
        /\ reqs' = [reqs EXCEPT ![r] =
                      [@ EXCEPT !.pc = "done", !.handlerRan = TRUE, !.route = route,
                                !.status = IF route = "not_found" THEN 404 ELSE 405]]
    /\ UNCHANGED <<credentials, clients, users, tampered, fin, fout>>

\* routes::register_user
RegisterUser(r, draw, dbUp) ==
    /\ reqs[r].pc = "admitted"
    /\ Dispatch(reqs[r].req.method, reqs[r].req.path) = "register"
    /\ dbUp => Cardinality(users) < MaxUsers
    /\ \E ran \in {[reqs[r] EXCEPT !.pc = "done", !.handlerRan = TRUE, !.route = "register"]},
          api_key \in {OptAndThen(HeaderToStr(reqs[r].req.key), UuidParseStr)},
          encrypted_user \in {NewEncryptedUser[draw]} :
        IF ~api_key.some
        THEN /\ reqs' = [reqs EXCEPT ![r] = [ran EXCEPT !.status = 401]]
             /\ users' = users
        ELSE IF ~encrypted_user.ok
        THEN /\ reqs' = [reqs EXCEPT ![r] = [ran EXCEPT !.status = 500]]
             /\ users' = users
        ELSE \E stored \in {RegisterUserDb(users, credentials, api_key.val,
                                           encrypted_user.val, dbUp)} :
             /\ users' = stored.users
             /\ reqs' = [reqs EXCEPT ![r] =
                          IF stored.res.ok
                          THEN [ran EXCEPT !.status = 201,
                                           !.resp = [NoResponse EXCEPT
                                                       !.user_id = encrypted_user.val.id,
                                                       !.pub_key =
                                                           PublicKeyPem(draw.private_key)]]
                          ELSE [ran EXCEPT !.status = 500]]
    /\ UNCHANGED <<credentials, clients, tampered, fin, fout>>

\* sign_message answering a missing user as it answers a storage error
SignMessageRouteNoneAsError(r, dbUp) ==
    /\ reqs[r].pc = "admitted"
    /\ Dispatch(reqs[r].req.method, reqs[r].req.path) = "sign"
    /\ reqs' = [reqs EXCEPT ![r] =
         With([reqs[r] EXCEPT !.pc = "done", !.handlerRan = TRUE, !.route = "sign"],
              LAMBDA ran :
         With(PathUserId(reqs[r].req.path), LAMBDA user_id :
         With(JsonString(reqs[r].payload), LAMBDA message :
            IF ~user_id.some THEN [ran EXCEPT !.status = 404]
            ELSE IF ~message.some THEN [ran EXCEPT !.status = 400]
            ELSE
                With(GetUser(users, credentials, user_id.val, dbUp), LAMBDA encrypted_user :
                    IF ~encrypted_user.ok
                    THEN [ran EXCEPT !.status = 500, !.dbUser = "error"]
                    ELSE IF ~encrypted_user.val.some
                    THEN [ran EXCEPT !.status = 500, !.dbUser = "none"]
                    ELSE
                        With(EncryptedUserDecrypt(encrypted_user.val.val, MasterKeyCfg),
                             LAMBDA user :
                            IF user = Panic THEN [ran EXCEPT !.dbUser = "found"]
                            ELSE IF ~user.ok
                            THEN [ran EXCEPT !.status = 500, !.dbUser = "found"]
                            ELSE [ran EXCEPT !.status = 200, !.dbUser = "found",
                                             !.resp = [NoResponse EXCEPT
                                                 !.message = message.val,
                                                 !.signature =
                                                     SignMessage(user.val.signing_key,
                                                                 message.val)]]))))) ]
    /\ UNCHANGED <<credentials, clients, users, tampered, fin, fout>>

\* a sign_message that looks the user up among the users of the client that
\* authenticated the request
SignMessageRouteOwnUsers(r, dbUp) ==
    /\ reqs[r].pc = "admitted"
    /\ Dispatch(reqs[r].req.method, reqs[r].req.path) = "sign"
    /\ reqs' = [reqs EXCEPT ![r] =
         With([reqs[r] EXCEPT !.pc = "done", !.handlerRan = TRUE, !.route = "sign"],
              LAMBDA ran :
         With(PathUserId(reqs[r].req.path), LAMBDA user_id :
         With(JsonString(reqs[r].payload), LAMBDA message :
            IF ~user_id.some THEN [ran EXCEPT !.status = 404]
            ELSE IF ~message.some THEN [ran EXCEPT !.status = 400]
            ELSE
                With(GetUser({u \in users :
                                \E c \in credentials :
                                    /\ c.client_id = u.client_id
                                    /\ UuidToString(c.api_key) = reqs[r].req.key.val},
                             credentials, user_id.val, dbUp), LAMBDA encrypted_user :
                    IF ~encrypted_user.ok
                    THEN [ran EXCEPT !.status = 500, !.dbUser = "error"]
                    ELSE IF ~encrypted_user.val.some
                    THEN [ran EXCEPT !.status = 404, !.dbUser = "none"]
                    ELSE
                        With(EncryptedUserDecrypt(encrypted_user.val.val, MasterKeyCfg),
                             LAMBDA user :
                            IF user = Panic THEN [ran EXCEPT !.dbUser = "found"]
                            ELSE IF ~user.ok
                            THEN [ran EXCEPT !.status = 500, !.dbUser = "found"]
                            ELSE [ran EXCEPT !.status = 200, !.dbUser = "found",
                                             !.resp = [NoResponse EXCEPT
                                                 !.message = message.val,
                                                 !.signature =
                                                     SignMessage(user.val.signing_key,
                                                                 message.val)]]))))) ]
    /\ UNCHANGED <<credentials, clients, users, tampered, fin, fout>>

\* routes::sign_message, behind its Path<UserId> and Json<String> extractors
SignMessageRoute(r, dbUp) ==
    /\ reqs[r].pc = "admitted"
    /\ Dispatch(reqs[r].req.method, reqs[r].req.path) = "sign"
    /\ reqs' = [reqs EXCEPT ![r] =
         With([reqs[r] EXCEPT !.pc = "done", !.handlerRan = TRUE, !.route = "sign"],
              LAMBDA ran :
         With(PathUserId(reqs[r].req.path), LAMBDA user_id :
         With(JsonString(reqs[r].payload), LAMBDA message :
            IF ~user_id.some THEN [ran EXCEPT !.status = 404]
            ELSE IF ~message.some THEN [ran EXCEPT !.status = 400]
            ELSE
                With(GetUser(users, credentials, user_id.val, dbUp), LAMBDA encrypted_user :
                    IF ~encrypted_user.ok
                    THEN [ran EXCEPT !.status = 500, !.dbUser = "error"]
                    ELSE IF ~encrypted_user.val.some
                    THEN [ran EXCEPT !.status = 404, !.dbUser = "none"]
                    ELSE
                        With(EncryptedUserDecrypt(encrypted_user.val.val, MasterKeyCfg),
                             LAMBDA user :
                            IF user = Panic THEN [ran EXCEPT !.dbUser = "found"]
                            ELSE IF ~user.ok
                            THEN [ran EXCEPT !.status = 500, !.dbUser = "found"]
                            ELSE [ran EXCEPT !.status = 200, !.dbUser = "found",
                                             !.resp = [NoResponse EXCEPT
                                                 !.message = message.val,
                                                 !.signature =
                                                     SignMessage(user.val.signing_key,
                                                                 message.val)]]))))) ]
    /\ UNCHANGED <<credentials, clients, users, tampered, fin, fout>>

\* a revoke_user that is serialised before the sign requests in flight: a
\* sign for the user whose response is not yet written is answered 404
RevokeUserCancelling(r, dbUp) ==
    LET slot == reqs[r]
        user_id == PathUserId(slot.req.path)
        ran == [slot EXCEPT !.pc = "done", !.handlerRan = TRUE, !.route = "revoke"]
        deleted == DeleteUser(users, user_id.val, dbUp)
        cancelled == [s \in DOMAIN reqs |->
                        IF /\ reqs[s].pc = "done" /\ reqs[s].route = "sign"
                           /\ reqs[s].status = 200
                           /\ PathUserId(reqs[s].req.path) = user_id
                        THEN [reqs[s] EXCEPT !.status = 404, !.resp = NoResponse]
                        ELSE reqs[s]]
    IN
    /\ slot.pc = "admitted"
    /\ Dispatch(slot.req.method, slot.req.path) = "revoke"
    /\ IF ~user_id.some
       THEN /\ reqs' = [reqs EXCEPT ![r] = [ran EXCEPT !.status = 404]]
            /\ users' = users
       ELSE /\ users' = deleted.users
            /\ reqs' = [cancelled EXCEPT ![r] =
                         [ran EXCEPT !.status = IF deleted.res.ok THEN 204 ELSE 500]]
    /\ UNCHANGED <<credentials, clients, tampered, fin, fout>>

\* routes::revoke_user, behind its Path<UserId> extractor
RevokeUser(r, dbUp) ==
    LET slot == reqs[r]
        user_id == PathUserId(slot.req.path)
        ran == [slot EXCEPT !.pc = "done", !.handlerRan = TRUE, !.route = "revoke"]
        deleted == DeleteUser(users, user_id.val, dbUp)
    IN
    /\ slot.pc = "admitted"
    /\ Dispatch(slot.req.method, slot.req.path) = "revoke"
    /\ IF ~user_id.some
       THEN /\ reqs' = [reqs EXCEPT ![r] = [ran EXCEPT !.status = 404]]
            /\ users' = users
       ELSE /\ users' = deleted.users
            /\ reqs' = [reqs EXCEPT ![r] =
                         [ran EXCEPT !.status = IF deleted.res.ok THEN 204 ELSE 500]]
    /\ UNCHANGED <<credentials, clients, tampered, fin, fout>>

\* the response has been written; the connection is free again
Respond(r) ==
    /\ reqs[r].pc = "done"
    /\ reqs' = [reqs EXCEPT ![r] = Idle]
    /\ UNCHANGED <<credentials, clients, users, tampered, fin, fout>>

\* the character an out-of-band alteration writes: 'A'.  In place of another
\* alphabet character it changes the bytes decoded, in place of the separator
\* it leaves a string that is no canonical form.
TamperChars == {65}

\* positions altered: the first and last character and the separator
TamperPositions(str) == {1, IndexOf(str, COLON, 1), Len(str)} \ {0}

\* a stored ciphertext column of a credentials row is altered outside the service
TamperCredentials(row, col, pos, ch) ==
    /\ ~tampered
    /\ row \in credentials
    /\ pos \in TamperPositions(row[col])
    /\ row[col][pos] # ch
    /\ credentials' = (credentials \ {row})
                        \cup {[row EXCEPT ![col] = [@ EXCEPT ![pos] = ch]]}
    /\ tampered' = TRUE
    /\ UNCHANGED <<clients, users, reqs, fin, fout>>

\* a stored ciphertext column of a users row is altered outside the service
TamperUser(row, col, pos, ch) ==
    /\ ~tampered
    /\ row \in users
    /\ pos \in TamperPositions(row[col])
    /\ row[col][pos] # ch
    /\ users' = (users \ {row}) \cup {[row EXCEPT ![col] = [@ EXCEPT ![pos] = ch]]}
    /\ tampered' = TRUE
    /\ UNCHANGED <<credentials, clients, reqs, fin, fout>>

Next ==
    \/ \E name \in Names, draw \in CredentialDraws, dbUp \in BOOLEAN :
          CreateClient(name, draw, dbUp)
    \/ \E name \in Names, dbUp \in BOOLEAN : GetClient(name, dbUp)
    \/ \E r \in Slots, q \in Requests : Receive(r, q)
    \/ \E r \in Slots, dbUp \in BOOLEAN : Authenticate(r, dbUp)
    \/ \E r \in Slots : DefaultService(r)
    \/ \E r \in Slots, draw \in UserDraws, dbUp \in BOOLEAN :
          RegisterUser(r, draw, dbUp)
    \/ \E r \in Slots, dbUp \in BOOLEAN : SignMessageRoute(r, dbUp)
    \/ \E r \in Slots, dbUp \in BOOLEAN : RevokeUser(r, dbUp)
    \/ \E r \in Slots : Respond(r)
    \/ \E row \in credentials, col \in {"encrypted_secret", "encrypted_data_key"} :
          \E pos \in TamperPositions(row[col]), ch \in TamperChars :
             TamperCredentials(row, col, pos, ch)
    \/ \E row \in users, col \in {"encrypted_private_key", "encrypted_data_key"} :
          \E pos \in TamperPositions(row[col]), ch \in TamperChars :
             TamperUser(row, col, pos, ch)

Spec == Init /\ [][Next]_vars

(***************************************************************************)
(* Properties of the wallet service                                        *)
(***************************************************************************)
\* the request of slot r has left the middleware: it was admitted or answered
Decided(r) == reqs[r].pc \in {"admitted", "done"}

\* the x-api-key header of the request of slot r, parsed
RequestApiKey(r) ==
    IF HeaderToStr(reqs[r].req.key).some THEN UuidParseStr(reqs[r].req.key.val) ELSE None

\* the x-timestamp header of the request of slot r, parsed
RequestTimestamp(r) ==
    IF HeaderToStr(reqs[r].req.ts).some THEN ParseU64(reqs[r].req.ts.val) ELSE None

\* C1: a handler (register, sign, revoke, the default service) is invoked for
\* a request only after the three headers of that request were parsed, its
\* API key was found in storage, the stored credentials were decrypted under
\* the master key and the HMAC over the canonical message verified; no
\* handler runs for a request whose authentication did not return Ok.
C1_HandlerOnlyAfterAuthentication ==
    \A r \in Slots :
        (reqs[r].pc = "admitted" \/ reqs[r].handlerRan \/ reqs[r].route # "none") =>
            /\ reqs[r].parsed
            /\ RequestTimestamp(r).some /\ RequestApiKey(r).some /\ reqs[r].req.sig.some
            /\ reqs[r].dbCred = "found"
            /\ reqs[r].decrypted
            /\ reqs[r].verified
            /\ StandardDecode(reqs[r].req.sig.val)
                 = Ok(HmacSha256(reqs[r].hmacKey, reqs[r].hmacMsg))
            /\ reqs[r].authErr = ""

C1_Witness ==
    \E r \in Slots :
        /\ reqs[r].handlerRan /\ reqs[r].route = "sign" /\ reqs[r].status = 200
        /\ reqs[r].verified

\* C2: during authentication a failure to decrypt the stored credentials or a
\* storage failure is answered with 500 and not with 401.
C2_AuthDecryptOrStorageFailureIs500 ==
    \A r \in Slots :
        (/\ reqs[r].pc = "done" /\ reqs[r].parsed /\ ~reqs[r].handlerRan
         /\ \/ reqs[r].dbCred = "error"
            \/ reqs[r].dbCred = "found" /\ ~reqs[r].decrypted)
        => reqs[r].status = 500

\* C3: a request is answered 401 and its handler is not run whenever
\* x-timestamp is missing or is no unsigned 64-bit integer, x-api-key is
\* missing or is no UUID, x-signature is missing, the API key has no
\* credentials row in storage, or the signature supplied does not match the
\* HMAC of the canonical message.
C3_Unauthorized ==
    \A r \in Slots :
        (/\ Decided(r)
         /\ \/ ~RequestTimestamp(r).some
            \/ ~RequestApiKey(r).some
            \/ ~reqs[r].req.sig.some
            \/ \A c \in credentials : c.api_key # RequestApiKey(r).val
            \/ reqs[r].dbCred = "none"
            \/ /\ reqs[r].decrypted
               /\ StandardDecode(reqs[r].req.sig.val)
                    # Ok(HmacSha256(reqs[r].hmacKey, reqs[r].hmacMsg)))
        => /\ reqs[r].pc = "done"
           /\ reqs[r].status = 401
           /\ ~reqs[r].handlerRan
           /\ reqs[r].route = "none"

C3_Witness ==
    \E r \in Slots :
        /\ reqs[r].pc = "done" /\ reqs[r].status = 401
        /\ reqs[r].decrypted /\ ~reqs[r].verified
        /\ StandardDecode(reqs[r].req.sig.val).ok

\* C4: a None from storage is not treated as a storage error: a sign request
\* for a user id with no stored user is answered 404, a request whose API key
\* has no stored credentials is answered 401, and neither is answered 500.
C4_NoneIsNotAnError ==
    \A r \in Slots :
        /\ (reqs[r].route = "sign" /\ reqs[r].dbUser = "none") => reqs[r].status = 404
        /\ reqs[r].dbCred = "none" => reqs[r].status = 401
        /\ reqs[r].status = 500 => (reqs[r].dbUser # "none" /\ reqs[r].dbCred # "none")

C4_Witness ==
    \E r \in Slots :
        /\ reqs[r].handlerRan /\ reqs[r].route = "sign"
        /\ reqs[r].dbUser = "none" /\ reqs[r].status = 404

\* C6: the message the HMAC of a request is verified over is the
\* concatenation of the timestamp, the method, the path, the query string
\* and the body text, in that order and with nothing between them.
C6_CanonicalMessage ==
    \A r \in Slots :
        reqs[r].decrypted =>
            reqs[r].hmacMsg =
                RequestTimestamp(r).val \o reqs[r].req.method \o reqs[r].req.path
                    \o reqs[r].req.query
                    \o (IF IsUtf8(reqs[r].req.body) THEN reqs[r].req.body ELSE <<>>)

C6_Witness ==
    \E r \in Slots :
        /\ reqs[r].verified
        /\ reqs[r].req.query # <<>> /\ reqs[r].req.body # <<>>
        /\ Len(reqs[r].hmacMsg) =
             1 + Len(reqs[r].req.method) + Len(reqs[r].req.path)
               + Len(reqs[r].req.query) + Len(reqs[r].req.body)

\* the handler of an admitted request is given the body bytes of the request
BodyReplayed ==
    \A r \in Slots :
        (reqs[r].pc = "admitted" \/ reqs[r].handlerRan) =>
            /\ reqs[r].payload = reqs[r].req.body
            /\ reqs[r].hmacMsg =
                   RequestTimestamp(r).val \o reqs[r].req.method \o reqs[r].req.path
                       \o reqs[r].req.query
                       \o (IF IsUtf8(reqs[r].req.body) THEN reqs[r].req.body ELSE <<>>)

\* the middleware decides a request whose body is not UTF-8 as it decides the
\* same request with an empty body
BinaryBodyAsEmpty ==
    \A r \in Slots :
        (reqs[r].pc = "received" /\ reqs'[r].pc # "received"
            /\ ~IsUtf8(reqs[r].req.body) /\ reqs'[r].dbCred # "error") =>
            With(AuthMiddlewareCall([reqs[r] EXCEPT !.req.body = <<>>], credentials,
                                    MasterKeyCfg, TRUE),
                 LAMBDA empty :
                    /\ reqs'[r].pc = empty.pc
                    /\ reqs'[r].verified = empty.verified
                    /\ reqs'[r].hmacMsg = empty.hmacMsg
                    /\ reqs'[r].status = empty.status)

\* C23: the middleware reads the whole body and the handler of an admitted
\* request receives the same bytes, also when they are not UTF-8; a body that
\* is not UTF-8 adds nothing to the canonical message, so the request is
\* verified with the signature of the same request with an empty body.
C23_BodyBufferedAndReplayed == []BodyReplayed /\ [][BinaryBodyAsEmpty]_vars

C23_Witness ==
    \E r \in Slots :
        /\ ~IsUtf8(reqs[r].req.body)
        /\ reqs[r].handlerRan /\ reqs[r].route = "register" /\ reqs[r].status = 201
        /\ reqs[r].payload = reqs[r].req.body

(***************************************************************************)
(* Properties of storage and of the admin service                          *)
(***************************************************************************)
\* other requests made of the characters of q: the timestamp spelled with a
\* leading zero or a plus sign, the query sent as the head of the body, the
\* last character of the path sent as the head of the query.  The headers
\* x-api-key and x-signature are those of q.
Respellings(q) ==
    ({ [q EXCEPT !.ts = Some(<<c>> \o q.ts.val)] :
         c \in IF q.ts.some /\ q.ts.val # <<>> /\ IsDigit(q.ts.val[1]) THEN {48, 43} ELSE {} }
     \cup { [q EXCEPT !.query = <<>>, !.body = q.query \o q.body] }
     \cup { [q EXCEPT !.path = SubSeq(q.path, 1, Len(q.path) - 1),
                      !.query = <<q.path[Len(q.path)]>> \o q.query] })
    \ {q}

\* a request from_request accepts, its body being text, and its respellings
\* have the same canonical message
SameCanonicalMessage ==
    \A r \in Slots :
        (reqs[r].pc = "received" /\ FromRequest(reqs[r].req).ok
         /\ IsUtf8(reqs[r].req.body)) =>
            \A q \in Respellings(reqs[r].req) :
                /\ FromRequest(q).ok
                /\ CanonicalMessage(FromRequest(q).val)
                       = CanonicalMessage(FromRequest(reqs[r].req).val)

\* when the middleware admits a request, it admits each of its respellings,
\* sent with the same x-signature, over the same message
RespellingAdmitted ==
    \A r \in Slots :
        (reqs[r].pc = "received" /\ reqs'[r].verified) =>
            \A q \in Respellings(reqs[r].req) :
                With(AuthMiddlewareCall([reqs[r] EXCEPT !.req = q], credentials,
                                        MasterKeyCfg, TRUE),
                     LAMBDA other :
                        /\ other.verified
                        /\ other.hmacMsg = reqs'[r].hmacMsg
                        /\ other.hmacKey = reqs'[r].hmacKey)

\* C27: the canonical message is not injective: the fields are concatenated
\* with no separators and the timestamp is written again from its parsed
\* value, so requests that split the same characters differently between
\* path, query and body, or spell the timestamp differently, have the same
\* message, and the signature admitted for one is admitted for the other.
C27_CanonicalMessageNotInjective == []SameCanonicalMessage /\ [][RespellingAdmitted]_vars

\* a request with a query was admitted, and it has four respellings
C27_Witness ==
    \E r \in Slots :
        /\ reqs[r].verified
        /\ reqs[r].req.query # <<>>
        /\ Cardinality(Respellings(reqs[r].req)) = 4

\* needle occurs in hay
Contains(hay, needle) ==
    \/ needle = <<>>
    \/ \E i \in 1..(Len(hay) - Len(needle) + 1) :
        /\ hay[i] = needle[1]
        /\ SubSeq(hay, i, i + Len(needle) - 1) = needle

\* the text of a ciphertext column shows one of the plaintexts, as it is or
\* as the bytes its ciphertext token encodes
HoldsPlaintext(column, plaintexts) ==
    \/ \E p \in plaintexts : Contains(column, p)
    \/ With(StringTryIntoEncrypted(column), LAMBDA parsed :
           parsed.ok /\ \E p \in plaintexts : Contains(parsed.val.ciphertext, p))

\* the secrets Credentials::generate can have drawn
GeneratedSecrets == { c.secret : c \in Signers }

\* the texts of the data keys Credentials::encrypt and SigningKey::encrypt can
\* have drawn
DataKeyTexts == { DataKeyToString(k) : k \in DataKeys }

\* the PEM texts of the private keys User::new can have drawn
PrivateKeyPems == { ToPkcs8Pem(k) : k \in PrivateKeys }

\* C13: each credentials row and each users row holds its payload only as
\* ciphertext under the data key drawn by the encrypt call that wrote it, and
\* that data key only as ciphertext under the master key; no secret, private
\* key or data key is part of a persisted row in plaintext.
C13_OnlyCiphertextPersisted ==
    /\ \A row \in credentials :
        /\ \A col \in {"encrypted_secret", "encrypted_data_key"} :
            ~HoldsPlaintext(row[col], GeneratedSecrets \cup DataKeyTexts)
        /\ ~tampered =>
            With(GetCredentials({row}, row.api_key, TRUE).val.val, LAMBDA ec :
            With(MasterKeyDecrypt(MasterKeyCfg, ec.encrypted_data_key), LAMBDA text :
                /\ text.ok /\ text.val \in DataKeyTexts
                /\ With(DataKeyDecrypt(DataKeyFromStr(text.val).val, ec.encrypted_secret),
                        LAMBDA secret : secret.ok /\ secret.val \in GeneratedSecrets)))
    /\ \A row \in users :
        /\ \A col \in {"encrypted_private_key", "encrypted_data_key"} :
            ~HoldsPlaintext(row[col], PrivateKeyPems \cup DataKeyTexts)
        /\ ~tampered =>
            With(GetUser({row}, credentials, row.id, TRUE).val.val.encrypted_signing_key,
                 LAMBDA esk :
            With(MasterKeyDecrypt(MasterKeyCfg, esk.encrypted_data_key), LAMBDA text :
                /\ text.ok /\ text.val \in DataKeyTexts
                /\ With(Aes256KeyDecrypt(Aes256KeyFromStr(text.val).val,
                                         esk.encrypted_private_key),
                        LAMBDA pem : pem.ok /\ pem.val \in PrivateKeyPems)))

C13_Witness == ~tampered /\ credentials # {} /\ users # {}

\* C16: a successful POST /admin/client answers 201 with a body
\* {id, name, credentials:{api_key, secret}} whose secret field is the literal
\* "[REDACTED]": the generated secret does not appear in the body.
C16_CreatedSecretRedacted ==
    \A name \in Names, draw \in CredentialDraws :
        With(CreateClientOutcome(clients, credentials, name, draw, TRUE), LAMBDA out :
            out.status = 201 =>
                /\ Contains(out.body, <<34, 115, 101, 99, 114, 101, 116, 34, 58>>
                                      \o ToJsonString(REDACTED) \o <<125, 125>>)
                /\ ~Contains(out.body, NewClient[name, draw].credentials.secret))

OneClientPerName ==
    /\ \A c \in clients :
        /\ c.id = ClientIdFrom(c.name)
        /\ \A d \in clients : d.name = c.name => d = c
        /\ Cardinality({k \in credentials : k.client_id = c.id}) = 1
    /\ \A name \in Names, draw \in CredentialDraws, dbUp \in BOOLEAN :
        (\E c \in clients : c.name = name) =>
            With(CreateClientOutcome(clients, credentials, name, draw, dbUp), LAMBDA out :
                out.status = 500 /\ out.clients = clients /\ out.credentials = credentials)

\* no request changes or removes a stored client or its credentials row
StoredClientsKept ==
    tampered' = tampered => (clients \subseteq clients' /\ credentials \subseteq credentials')

\* C19: after any sequence of admin and wallet requests a client name maps to
\* at most one client, of id ClientId::from(name); the id, api_key,
\* encrypted_secret and encrypted_data_key stored for a name never change and
\* are never removed; a later create with the same name fails with 500 and
\* leaves storage unchanged.
C19_ClientsNeverChange == []OneClientPerName /\ [][StoredClientsKept]_vars

C19_Witness ==
    \E c \in clients, draw \in CredentialDraws :
        /\ \A k \in credentials : k.api_key # draw.api_key
        /\ CreateClientOutcome(clients, credentials, c.name, draw, TRUE).status = 500

\* C20: once a POST /admin/client for name n has returned 201, a GET
\* /admin/client?name=n that storage answers returns 200 with name n and the
\* masked api_key generated by that create; for a name no create has
\* succeeded for it returns 404.  A GET that storage does not answer, or
\* whose row no longer parses, returns 500.
C20_GetAfterCreate ==
    \A name \in Names :
        /\ GetClientOutcome(clients, credentials, name, FALSE).status = 500
        /\ With(GetClientOutcome(clients, credentials, name, TRUE), LAMBDA out :
            IF \E c \in clients : c.name = name
            THEN \E k \in credentials, d \in CredentialDraws :
                    /\ k.client_id = ClientIdFrom(name) /\ k.api_key = d.api_key
                    /\ IF DecodeColumns(k.encrypted_secret, k.encrypted_data_key).ok
                       THEN /\ out.status = 200
                            /\ out.body = <<123, 34, 110, 97, 109, 101, 34, 58>>
                                          \o <<QUOTE>> \o name \o <<QUOTE>>
                                          \o <<44, 34, 97, 112, 105, 95, 107, 101, 121, 34, 58>>
                                          \o <<QUOTE>> \o SubSeq(UuidToString(d.api_key), 1, 3)
                                          \o STARS \o <<QUOTE>> \o <<125>>
                       ELSE out.status = 500
            ELSE out.status = 404 /\ out.body = <<>>)

C20_Witness ==
    /\ \E name \in Names : GetClientOutcome(clients, credentials, name, TRUE).status = 200
    /\ \E name \in Names : GetClientOutcome(clients, credentials, name, TRUE).status = 404

(***************************************************************************)
(* Properties of the users table                                           *)
(***************************************************************************)
\* the client that owns api_key
OwnerOf(api_key) == { c.client_id : c \in {c \in credentials : c.api_key = api_key} }

\* a register that answered 201 has its row stored, one row, of the client
\* that owns the api key of the request; for an api key no client owns
\* WalletRepository::register_user fails as not created and adds no row
RegisteredIsStored ==
    /\ \A r \in Slots :
        (reqs[r].route = "register" /\ reqs[r].status = 201) =>
            /\ Cardinality({u \in users : u.id = reqs[r].resp.user_id}) = 1
            /\ \A u \in users :
                u.id = reqs[r].resp.user_id =>
                    RequestApiKey(r).some /\ OwnerOf(RequestApiKey(r).val) = {u.client_id}
    /\ \A d \in CredentialDraws, draw \in UserDraws :
        OwnerOf(d.api_key) = {} =>
            RegisterUserDb(users, credentials, d.api_key, NewEncryptedUser[draw].val, TRUE)
                = [res |-> Err("User was not created"), users |-> users]

\* a step of register_user adds one row when it answers 201 and none when it
\* answers anything else
RegisterAddsOneRow ==
    \A r \in Slots :
        (reqs[r].pc = "admitted" /\ reqs'[r].route = "register") =>
            /\ users \subseteq users'
            /\ Cardinality(users' \ users) = (IF reqs'[r].status = 201 THEN 1 ELSE 0)
            /\ reqs'[r].status \in {201, 401, 500}

\* C21: register_user persists exactly one user row, linked to the client
\* that owns the api key, and the route answers 201 only after the row is
\* stored; when no client owns the api key it fails as not created, and a
\* failed register_user is answered 500 with no row added.
C21_RegisterPersistsOneRow == []RegisteredIsStored /\ [][RegisterAddsOneRow]_vars

C21_Witness ==
    /\ \E r \in Slots : reqs[r].route = "register" /\ reqs[r].status = 201
    /\ \E d \in CredentialDraws : OwnerOf(d.api_key) = {}

(***************************************************************************)
(* The functions of core/types on their own: each behaviour draws one      *)
(* input and applies one function to it.                                   *)
(***************************************************************************)
MaxBytes == 2

\* byte values the arbitrary byte strings are built from: 0, ':', '>' x 4, 255
SampleBytes == {0, 58, 251, 255}

RECURSIVE ByteStrings(_)
\* the byte strings over SampleBytes of length at most n
ByteStrings(n) ==
    IF n = 0 THEN { <<>> }
    ELSE ByteStrings(n - 1)
         \cup { Append(b, x) : b \in {b \in ByteStrings(n - 1) : Len(b) = n - 1},
                               x \in SampleBytes }

MasterKeys == { MasterKeyCfg, [i \in 1..KeyLen |-> (9 * i + 4) % 256] }

\* "1700000000POST/wallet/register", the message of the HMAC scenario
MSG_S2 == <<49, 55, 48, 48, 48, 48, 48, 48, 48, 48>> \o POST \o PathRegister

ABC == <<97, 98, 99>>

HELLO == <<104, 101, 108, 108, 111>>

\* secrets and messages HMAC verification is tried on
HmacSecrets == { ABC, UrlSafeNoPadEncode(SecretBytes(13)) }

HmacMessages == { MSG_S2, HELLO }

\* signature strings tried against (secret, message): the right one, every
\* one-bit change of it that is still text, and other near misses
SignaturesFor(secret, message) ==
    With(ClientSignature(secret, message), LAMBDA sig :
    With(HmacSha256(secret, message), LAMBDA mac :
        { [kind |-> "valid", message |-> message, signature |-> sig] }
        \cup { [kind |-> "flip_sig", message |-> message, signature |-> FlipBitAt(sig, i, k)]
                 : i \in 1..Len(sig), k \in 0..6 }
        \cup { [kind |-> "flip_msg", message |-> FlipBitAt(message, i, k), signature |-> sig]
                 : i \in 1..Len(message), k \in 0..6 }
        \cup { [kind |-> "other", message |-> message, signature |-> x]
                 : x \in { <<>>, SubSeq(sig, 1, Len(sig) - 1),
                           UrlSafeNoPadEncode(mac),
                           StandardEncode(SubSeq(mac, 1, Sha256Len - 1)),
                           StandardEncode(mac \o <<0>>),
                           ClientSignature(secret, message \o <<48>>),
                           ClientSignature(secret \o <<48>>, message) } }))

HmacInputs ==
    UNION { { [f |-> "hmac", secret |-> secret, kind |-> x.kind, message |-> x.message,
               signature |-> x.signature]
                : x \in SignaturesFor(secret, message) }
            : secret \in HmacSecrets, message \in HmacMessages }

\* credentials, master keys and draws the envelope of credentials is tried on
CredInputs ==
    { [f |-> "cred", cred |-> cred, mk |-> mk, other_mk |-> other_mk,
       rnd |-> [dk |-> dk, n1 |-> n1, n2 |-> n2]]
        : cred \in Signers \cup { [api_key |-> ApiKey(5), secret |-> ABC],
                                  [api_key |-> ApiKey(3), secret |-> <<>>] },
          mk \in MasterKeys, other_mk \in MasterKeys,
          dk \in DataKeys, n1 \in Nonces, n2 \in Nonces }

\* keys, draws and messages the envelope of a user is tried on
UserInputs ==
    { [f |-> "user", private_key |-> private_key, mk |-> mk,
       rnd |-> [dk |-> dk, n1 |-> n1, n2 |-> n2],
       message |-> message, other_message |-> other_message]
        : private_key \in PrivateKeys, mk \in MasterKeys,
          dk \in DataKeys, n1 \in Nonces, n2 \in Nonces,
          message \in {HELLO, <<>>}, other_message \in {HELLO, ABC, <<>>} }

\* ways a stored Encrypted value is altered
Alterations(nonceLen, ctLen) ==
    { [part |-> "none", i |-> 0, k |-> 0],
      [part |-> "nonce_cut", i |-> 0, k |-> 0],
      [part |-> "ciphertext_cut", i |-> 0, k |-> 0] }
    \cup { [part |-> "nonce", i |-> i, k |-> k] : i \in 1..nonceLen, k \in {0, 7} }
    \cup { [part |-> "ciphertext", i |-> i, k |-> k] : i \in 1..ctLen, k \in {0, 7} }

Alter(e, a) ==
    CASE a.part = "none" -> e
      [] a.part = "nonce" -> [e EXCEPT !.nonce = FlipBitAt(@, a.i, a.k)]
      [] a.part = "ciphertext" -> [e EXCEPT !.ciphertext = FlipBitAt(@, a.i, a.k)]
      [] a.part = "nonce_cut" -> [e EXCEPT !.nonce = SubSeq(@, 1, Len(@) - 1)]
      [] a.part = "ciphertext_cut" -> [e EXCEPT !.ciphertext = SubSeq(@, 1, Len(@) - 1)]

DataKeyInputs ==
    UNION { { [f |-> "datakey", key |-> key, other_key |-> other_key, nonce |-> nonce,
               data |-> data, alter |-> a]
                : a \in Alterations(NonceLen, Len(data) + TagLen) }
            : key \in DataKeys, other_key \in DataKeys, nonce \in Nonces,
              data \in {HELLO, <<>>, ABC} }

\* Encrypted values of any nonce and ciphertext bytes, and the outputs of encrypt
EncryptedInputs ==
    { [f |-> "encrypted", key |-> DataKey(7), e |-> Encrypted(n, c)]
        : n \in ByteStrings(MaxBytes), c \in ByteStrings(MaxBytes) }
    \cup { [f |-> "encrypted", key |-> key, e |-> DataKeyEncrypt(key, nonce, data).val]
             : key \in DataKeys, nonce \in Nonces, data \in {HELLO, <<>>, ABC, MSG_S2} }

\* strings parsed into Encrypted: with no, one and two ':', with empty tokens
\* and with a token that is no base64
ParseInputs ==
    { [f |-> "parse", str |-> s]
        : s \in { <<>>, ABC, <<COLON>>, <<COLON>> \o ABC, ABC \o <<COLON>>,
                  ABC \o <<COLON>> \o ABC, ABC \o <<COLON>> \o ABC \o <<COLON>> \o ABC,
                  <<COLON, COLON>>, <<33>> \o <<COLON>> \o ABC, <<97>> \o <<COLON>> \o ABC,
                  EncryptedIntoString(DataKeyEncrypt(DataKey(7), Nonce(1), HELLO).val) } }

\* strings a key is built from: the text of a key, of its first 31 bytes and
\* of 33 bytes, short texts and texts that are no base64
KeyStrInputs ==
    { [f |-> "keystr", str |-> s]
        : s \in { DataKeyToString(k) : k \in DataKeys }
                \cup { UrlSafeNoPadEncode(SubSeq(DataKey(7), 1, KeyLen - 1)),
                       UrlSafeNoPadEncode(DataKey(7) \o <<0>>),
                       <<>>, ABC, <<97>>, <<33>> \o ABC,
                       StandardEncode(DataKey(7)) } }

\* values wrapped in Redacted: texts, a text with a quotation mark, the
\* literal itself and generated secrets
RedactInputs ==
    { [f |-> "redact", value |-> v]
        : v \in { <<>>, ABC, HELLO, HELLO_JSON, REDACTED } \cup { c.secret : c \in Signers } }

\* api keys wrapped in Masked
MaskInputs == { [f |-> "mask", api_key |-> ApiKey(s)] : s \in {0, 3, 5, 21, 255} }

\* pairs of credentials compared
CredEqInputs ==
    { [f |-> "credeq", a |-> a, b |-> b]
        : a \in Signers, b \in { [api_key |-> k, secret |-> s.secret]
                                   : k \in {ApiKey(3), ApiKey(21)}, s \in Signers } }

FnInputs ==
    HmacInputs \cup CredInputs \cup UserInputs \cup DataKeyInputs \cup EncryptedInputs
    \cup ParseInputs \cup KeyStrInputs \cup RedactInputs \cup MaskInputs \cup CredEqInputs

InitFn ==
    /\ credentials = {}
    /\ clients = {}
    /\ users = {}
    /\ reqs = [r \in Slots |-> Idle]
    /\ tampered = FALSE
    /\ fin \in FnInputs
    /\ fout = [f |-> "none"]

\* Credentials::check_authentication(message, signature)
ApplyCheckSignature ==
    /\ fin.f = "hmac" /\ fout.f = "none"
    /\ fout' = [f |-> "hmac",
                res |-> CheckSignature([api_key |-> ApiKey(3), secret |-> fin.secret],
                                       fin.message, fin.signature)]
    /\ UNCHANGED <<credentials, clients, users, reqs, tampered, fin>>

\* Credentials::encrypt, then EncryptedCredentials::decrypt under the same
\* and under the other master key
ApplyCredentialsEnvelope ==
    /\ fin.f = "cred" /\ fout.f = "none"
    /\ fout' = With(CredentialsEncrypt(fin.cred, fin.mk, fin.rnd), LAMBDA enc :
                   [f |-> "cred", enc |-> enc,
                    dec |-> AndThen(enc, LAMBDA e : EncryptedCredentialsDecrypt(e, fin.mk)),
                    decOther |->
                        AndThen(enc, LAMBDA e : EncryptedCredentialsDecrypt(e, fin.other_mk))])
    /\ UNCHANGED <<credentials, clients, users, reqs, tampered, fin>>

\* the client row a user is registered under in the function specification
AnyCredentialsRow ==
    [client_id |-> ClientIdFrom(ABC), api_key |-> ApiKey(3),
     encrypted_secret |-> <<>>, encrypted_data_key |-> <<>>]

\* User::new, User::encrypt, register_user, get_user, EncryptedUser::decrypt,
\* SigningKey::sign_message
ApplyUserEnvelope ==
    /\ fin.f = "user" /\ fout.f = "none"
    /\ fout' =
         With(UserNew(fin.private_key), LAMBDA user :
         With(UserEncrypt(user, fin.mk, fin.rnd), LAMBDA enc :
         With(IF enc.ok
              THEN RegisterUserDb({}, {AnyCredentialsRow}, ApiKey(3), enc.val, TRUE)
              ELSE [res |-> enc, users |-> {}], LAMBDA stored :
         With(GetUser(stored.users, {AnyCredentialsRow}, user.id, TRUE), LAMBDA loaded :
         With(IF loaded.ok /\ loaded.val.some
              THEN EncryptedUserDecrypt(loaded.val.val, fin.mk)
              ELSE Err("not loaded"), LAMBDA dec :
            [f |-> "user", user |-> user, pub_key |-> PublicKeyPem(fin.private_key),
             stored |-> stored.res, loaded |-> loaded, dec |-> dec,
             signature |-> IF dec.ok THEN SignMessage(dec.val.signing_key, fin.message)
                           ELSE <<>>])))))
    /\ UNCHANGED <<credentials, clients, users, reqs, tampered, fin>>

\* DataEncryptionKey::encrypt, then decrypt of the result and of its alteration
ApplyDataKey ==
    /\ fin.f = "datakey" /\ fout.f = "none"
    /\ fout' =
         With(DataKeyEncrypt(fin.key, fin.nonce, fin.data), LAMBDA enc :
         With(Alter(enc.val, fin.alter), LAMBDA altered :
            [f |-> "datakey", enc |-> enc,
             dec |-> DataKeyDecrypt(fin.key, enc.val),
             altered |-> altered,
             decAltered |-> DataKeyDecrypt(fin.other_key, altered)]))
    /\ UNCHANGED <<credentials, clients, users, reqs, tampered, fin>>

\* Into<String> for Encrypted, then TryInto<Encrypted> for String, and
\* decrypt of the value before and after
ApplyEncryptedString ==
    /\ fin.f = "encrypted" /\ fout.f = "none"
    /\ fout' =
         With(EncryptedIntoString(fin.e), LAMBDA str :
         With(StringTryIntoEncrypted(str), LAMBDA parsed :
            [f |-> "encrypted", str |-> str, parsed |-> parsed,
             decBefore |-> DataKeyDecrypt(fin.key, fin.e),
             decAfter |-> AndThen(parsed, LAMBDA e : DataKeyDecrypt(fin.key, e)),
             decMaster |-> AndThen(parsed, LAMBDA e : MasterKeyDecrypt(MasterKeyCfg, e))]))
    /\ UNCHANGED <<credentials, clients, users, reqs, tampered, fin>>

\* TryInto<Encrypted> for String
ApplyStringTryIntoEncrypted ==
    /\ fin.f = "parse" /\ fout.f = "none"
    /\ fout' = [f |-> "parse", parsed |-> StringTryIntoEncrypted(fin.str)]
    /\ UNCHANGED <<credentials, clients, users, reqs, tampered, fin>>

\* DataEncryptionKey::from_str and MasterKey::from_str
ApplyKeyFromStr ==
    /\ fin.f = "keystr" /\ fout.f = "none"
    /\ fout' = [f |-> "keystr", data_key |-> DataKeyFromStr(fin.str),
                master_key |-> MasterKeyFromStr(fin.str)]
    /\ UNCHANGED <<credentials, clients, users, reqs, tampered, fin>>

\* the renderings of Redacted<String> of both modules
ApplyRedacted ==
    /\ fin.f = "redact" /\ fout.f = "none"
    /\ fout' = [f |-> "redact",
                redact |-> [fmt |-> RedactedFmt(fin.value),
                            json |-> RedactedSerialize(fin.value),
                            exposed |-> RedactedInnerRef(fin.value)],
                secret |-> [fmt |-> SecretRedactedFmt(fin.value),
                            json |-> SecretRedactedSerialize(fin.value),
                            exposed |-> SecretRedactedExpose(fin.value)]]
    /\ UNCHANGED <<credentials, clients, users, reqs, tampered, fin>>

\* the renderings of Masked<ApiKey> of both modules
ApplyMasked ==
    /\ fin.f = "mask" /\ fout.f = "none"
    /\ fout' = [f |-> "mask",
                redact |-> [fmt |-> MaskedFmt(fin.api_key),
                            json |-> MaskedSerialize(fin.api_key)],
                secret |-> [fmt |-> SecretMaskedFmt(fin.api_key),
                            json |-> SecretMaskedSerialize(fin.api_key)],
                exposed |-> ExposeMasked(fin.api_key)]
    /\ UNCHANGED <<credentials, clients, users, reqs, tampered, fin>>

\* Credentials == Credentials
ApplyCredentialsEq ==
    /\ fin.f = "credeq" /\ fout.f = "none"
    /\ fout' = [f |-> "credeq", eq |-> CredentialsEq(fin.a, fin.b)]
    /\ UNCHANGED <<credentials, clients, users, reqs, tampered, fin>>

NextFn ==
    \/ ApplyCheckSignature
    \/ ApplyCredentialsEnvelope
    \/ ApplyUserEnvelope
    \/ ApplyDataKey
    \/ ApplyEncryptedString
    \/ ApplyStringTryIntoEncrypted
    \/ ApplyKeyFromStr
    \/ ApplyRedacted
    \/ ApplyMasked
    \/ ApplyCredentialsEq

SpecFn == InitFn /\ [][NextFn]_vars

(***************************************************************************)
(* Properties of the functions of core/types                               *)
(***************************************************************************)
\* C5 as stated: check_authentication(m, sig) is Ok exactly when the
\* STANDARD base64 decoding of sig is the HMAC-SHA256 of m under the secret,
\* and every m or sig one bit away from an accepted pair fails with
\* InvalidSignature.
C5_AnyBitFlipIsInvalidSignature ==
    fout.f = "hmac" =>
        /\ fout.res.ok <=>
             StandardDecode(fin.signature) = Ok(HmacSha256(fin.secret, fin.message))
        /\ fin.kind \in {"flip_sig", "flip_msg"} => fout.res = Err("InvalidSignature")

\* C5 as amended: check_authentication(m, sig) is Ok exactly when the
\* STANDARD base64 decoding of sig is the HMAC-SHA256 of m under the secret;
\* an m one bit away from an accepted pair, and a sig one bit away that is
\* still STANDARD base64, fail with InvalidSignature; a sig that is no
\* STANDARD base64 fails with the Base64 decoding error.
C5_CheckAuthentication ==
    fout.f = "hmac" =>
        /\ fout.res.ok <=>
             StandardDecode(fin.signature) = Ok(HmacSha256(fin.secret, fin.message))
        /\ fin.kind = "valid" => fout.res = Ok("unit")
        /\ fin.kind = "flip_msg" => fout.res = Err("InvalidSignature")
        /\ fin.kind = "flip_sig" =>
             IF StandardDecode(fin.signature).ok
             THEN fout.res = Err("InvalidSignature")
             ELSE fout.res \in { Err("Base64.InvalidByte"), Err("Base64.InvalidLength"),
                                 Err("Base64.InvalidPadding"),
                                 Err("Base64.InvalidLastSymbol") }

C5_Witness ==
    /\ fout.f = "hmac" /\ fin.kind = "flip_sig"
    /\ StandardDecode(fin.signature).ok
    /\ fout.res = Err("InvalidSignature")

\* C7: for credentials c and a master key mk, c.encrypt(mk).decrypt(mk)
\* succeeds with the api_key and the secret of c; decrypting the same
\* EncryptedCredentials under another master key fails with an error and
\* yields no credentials.
C7_CredentialsRoundTrip ==
    fout.f = "cred" =>
        /\ fout.enc.ok
        /\ fout.dec.ok
        /\ fout.dec.val.api_key = fin.cred.api_key
        /\ fout.dec.val.secret = fin.cred.secret
        /\ fin.other_mk # fin.mk => (~fout.decOther.ok /\ fout.decOther # Panic)
        /\ fin.other_mk = fin.mk => fout.decOther = fout.dec

C7_Witness ==
    /\ fout.f = "cred" /\ fin.other_mk # fin.mk
    /\ fout.dec = Ok(fin.cred) /\ fin.cred.secret # <<>>
    /\ fout.decOther = Err("AesGcm")

\* DecodePublicKey::from_public_key_pem, as the verifier of a signature applies it
FromPublicKeyPem(pem) ==
    IF Len(pem) < Len(PEM_PUBLIC_BEGIN) + Len(PEM_PUBLIC_END)
       \/ SubSeq(pem, 1, Len(PEM_PUBLIC_BEGIN)) # PEM_PUBLIC_BEGIN
       \/ SubSeq(pem, Len(pem) - Len(PEM_PUBLIC_END) + 1, Len(pem)) # PEM_PUBLIC_END
    THEN Err("RsaPkcs8Spki")
    ELSE StandardDecode(SubSeq(pem, Len(PEM_PUBLIC_BEGIN) + 1,
                               Len(pem) - Len(PEM_PUBLIC_END)))

\* the hexadecimal signature verifies for message under the key of the PEM
VerifiesUnder(pem, message, signature) ==
    /\ FromPublicKeyPem(pem).ok
    /\ IsHex(signature)
    /\ Pkcs1v15Verify(FromPublicKeyPem(pem).val, message, HexDecode(signature))

\* C8: the user obtained by u.encrypt(mk), persisting, reloading and
\* decrypt(mk) has the UserId and the signing key of u: its signature of m
\* verifies for m under the public key returned at registration, and for no
\* other message.
C8_UserRoundTrip ==
    fout.f = "user" =>
        /\ fout.stored.ok
        /\ fout.loaded.ok /\ fout.loaded.val.some
        /\ fout.dec = Ok(fout.user)
        /\ VerifiesUnder(fout.pub_key, fin.message, fout.signature)
        /\ fin.other_message # fin.message =>
             ~VerifiesUnder(fout.pub_key, fin.other_message, fout.signature)

C8_Witness ==
    /\ fout.f = "user" /\ fin.message = HELLO /\ fin.other_message = ABC
    /\ fout.dec.ok
    /\ VerifiesUnder(fout.pub_key, HELLO, fout.signature)
    /\ ~VerifiesUnder(fout.pub_key, ABC, fout.signature)

\* C9: k.decrypt(k.encrypt(m)) returns m, and decrypt returns a plaintext only
\* for an unmodified output of encrypt under the same key: if the nonce or
\* the ciphertext was altered, or the value was produced under another key,
\* decrypt fails with the AEAD failure error.
C9_DecryptOnlyUnmodified ==
    fout.f = "datakey" =>
        /\ fout.dec = Ok(fin.data)
        /\ (fout.altered # fout.enc.val \/ fin.other_key # fin.key) =>
              fout.decAltered = Err("AesGcm")
        /\ (fout.altered = fout.enc.val /\ fin.other_key = fin.key) =>
              fout.decAltered = Ok(fin.data)

\* C10: the canonical string of an Encrypted value of any nonce and
\* ciphertext bytes is URLSAFE_NO_PAD(nonce) ':' URLSAFE_NO_PAD(ciphertext),
\* parsing it gives the value back, and decrypt gives for the parsed value
\* what it gives for the value.
C10_CanonicalStringRoundTrip ==
    fout.f = "encrypted" =>
        /\ fout.str = UrlSafeNoPadEncode(fin.e.nonce) \o <<58>>
                        \o UrlSafeNoPadEncode(fin.e.ciphertext)
        /\ fout.parsed = Ok(fin.e)
        /\ fout.decAfter = fout.decBefore

C10_Witness ==
    /\ fout.f = "encrypted"
    /\ fout.parsed = Ok(fin.e)
    /\ fout.decAfter = Ok(HELLO)

\* C11: parsing a string into Encrypted fails with Base64(InvalidLength)
\* unless splitting at the first ':' gives exactly two non-empty tokens: a
\* string with no ':', with an empty nonce token or with an empty ciphertext
\* token never yields an Encrypted value.
C11_TwoNonEmptyTokens ==
    fout.f = "parse" =>
        (IndexOf(fin.str, COLON, 1) \in {0, 1, Len(fin.str)}
            => fout.parsed = Err("Base64.InvalidLength"))

\* C12: building a key from a string returns an error value for every
\* malformed input, Base64 when the string is no URL_SAFE_NO_PAD base64 and
\* InvalidKeyLength when it decodes to other than 32 bytes, and a key only
\* for exactly 32 decoded bytes.
C12_KeyFromStringErrors ==
    fout.f = "keystr" =>
        \A res \in {fout.data_key, fout.master_key} :
            /\ ~UrlSafeNoPadDecode(fin.str).ok => res = UrlSafeNoPadDecode(fin.str)
            /\ (UrlSafeNoPadDecode(fin.str).ok /\ Len(UrlSafeNoPadDecode(fin.str).val) # KeyLen)
                  => res = Err("InvalidKeyLength")
            /\ (UrlSafeNoPadDecode(fin.str).ok /\ Len(UrlSafeNoPadDecode(fin.str).val) = KeyLen)
                  => res = UrlSafeNoPadDecode(fin.str)

\* C14: for every wrapped value the Debug, Display and JSON-serialized forms
\* of Redacted are the string "[REDACTED]" whatever the value is, and the
\* named accessor returns the value unchanged.
C14_RedactionLaw ==
    fout.f = "redact" =>
        \A w \in {fout.redact, fout.secret} :
            /\ w.fmt = REDACTED
            /\ w.json = ToJsonString(REDACTED)
            /\ w.exposed = fin.value

\* C15: for every API key, Masked<ApiKey> renders in Debug, Display and
\* default JSON serialization as the first three characters of the UUID text
\* followed by "***"; the full key is emitted only by expose_masked.
C15_MaskingLaw ==
    fout.f = "mask" =>
        /\ \A w \in {fout.redact, fout.secret} :
            /\ w.fmt = SubSeq(UuidToString(fin.api_key), 1, 3) \o STARS
            /\ w.json = ToJsonString(SubSeq(UuidToString(fin.api_key), 1, 3) \o STARS)
        /\ fout.exposed = ToJsonString(UuidToString(fin.api_key))

\* C18: two Credentials are equal exactly when their api_keys are equal,
\* whatever their secrets are.
C18_EqualityByApiKeyOnly ==
    fout.f = "credeq" => (fout.eq <=> fin.a.api_key = fin.b.api_key)

\* the errors decrypt returns: the AEAD failure and the UTF-8 failure
DecryptErrors == { Err("AesGcm"), Err("Utf8") }

\* C28: decrypt of the data key and of the master key returns an error value
\* only for an Encrypted whose nonce has exactly 12 bytes; for a nonce of
\* another length, the empty nonce included, which the string parser and the
\* storage decoder accept, decrypt panics and returns no AEAD failure error.
C28_DecryptPanicsUnlessTwelveByteNonce ==
    /\ fout.f = "encrypted" =>
        /\ fout.parsed = Ok(fin.e)
        /\ Len(fin.e.nonce) # NonceLen =>
             fout.decAfter = Panic /\ fout.decMaster = Panic
        /\ Len(fin.e.nonce) = NonceLen =>
             /\ fout.decAfter.ok \/ fout.decAfter \in DecryptErrors
             /\ fout.decMaster.ok \/ fout.decMaster \in DecryptErrors
    /\ fout.f = "datakey" =>
        /\ Len(fout.altered.nonce) # NonceLen => fout.decAltered = Panic
        /\ Len(fout.altered.nonce) = NonceLen =>
             fout.decAltered.ok \/ fout.decAltered \in DecryptErrors

\* the string ":" followed by a ciphertext token was parsed into an Encrypted
\* with an empty nonce, and both decrypts of it panicked
C28_Witness ==
    /\ fout.f = "encrypted"
    /\ fin.e.nonce = <<>> /\ fin.e.ciphertext # <<>>
    /\ fout.str[1] = COLON
    /\ fout.parsed = Ok(fin.e)
    /\ fout.decAfter = Panic /\ fout.decMaster = Panic

(***************************************************************************)
(* The wallet service with two connections, on a storage that holds two    *)
(* clients and a user of each: requests of the two clients for the same    *)
(* users are in flight at the same time.  Every storage call is one        *)
(* statement, so the steps of a handler are its storage call and the       *)
(* writing of its response.                                                *)
(***************************************************************************)
Conns == {1, 2}

\* the storage after POST /admin/client for "acme" and for "bob"
TwoClients ==
    With(CreateClientOutcome({}, {}, <<97, 99, 109, 101>>,
                             CHOOSE d \in CredentialDraws : d.api_key = ApiKey(3), TRUE),
         LAMBDA first :
            CreateClientOutcome(first.clients, first.credentials, <<98, 111, 98>>,
                                CHOOSE d \in CredentialDraws : d.api_key = ApiKey(21), TRUE))

\* the users table after a register of each client
TwoUsers ==
    With(RegisterUserDb({}, TwoClients.credentials, ApiKey(3),
                        NewEncryptedUser[CHOOSE d \in UserDraws : d.private_key = <<1, 2, 3>>].val,
                        TRUE),
         LAMBDA first :
            RegisterUserDb(first.users, TwoClients.credentials, ApiKey(21),
                           NewEncryptedUser[CHOOSE d \in UserDraws : d.private_key = <<9, 8, 7>>].val,
                           TRUE).users)

\* the requests of the two clients: each signs and revokes for either user,
\* and registers
SharedRequests ==
    { SignedRequest(call, c) :
        call \in {RegisterCall} \cup { SignCall(u) : u \in UserIds }
                 \cup { RevokeCall(u) : u \in UserIds },
        c \in Signers }

InitShared ==
    /\ credentials = TwoClients.credentials
    /\ clients = TwoClients.clients
    /\ users = TwoUsers
    /\ reqs = [r \in Conns |-> Idle]
    /\ tampered = FALSE
    /\ fin = [f |-> "none"]
    /\ fout = [f |-> "none"]

NextShared ==
    \/ \E r \in Conns, q \in SharedRequests : Receive(r, q)
    \/ \E r \in Conns, dbUp \in BOOLEAN : Authenticate(r, dbUp)
    \/ \E r \in Conns, draw \in UserDraws, dbUp \in BOOLEAN : RegisterUser(r, draw, dbUp)
    \/ \E r \in Conns, dbUp \in BOOLEAN : SignMessageRoute(r, dbUp)
    \/ \E r \in Conns, dbUp \in BOOLEAN : RevokeUser(r, dbUp)
    \/ \E r \in Conns : Respond(r)

SpecShared == InitShared /\ [][NextShared]_vars

(***************************************************************************)
(* Properties of the wallet service with two connections                   *)
(***************************************************************************)
\* connection r takes the handler step of route in this step
Handles(r, route) == reqs[r].pc = "admitted" /\ reqs'[r].route = route

\* the user id in the path of the request of connection r
RequestUserId(r) == PathUserId(reqs[r].req.path).val

\* a revoke answers 204 and leaves the users table without the rows of its
\* user id and with every other row, or answers 500 and leaves it as it is
RevokeRemovesOneUser ==
    \A r \in Conns :
        Handles(r, "revoke") =>
            \/ /\ reqs'[r].status = 204
               /\ users' = {u \in users : u.id # RequestUserId(r)}
            \/ /\ reqs'[r].status = 500
               /\ users' = users

\* a sign for a user id without a row answers 404, or 500 when storage does
\* not answer, and carries no signature
SignOfRevokedIsNotFound ==
    \A r \in Conns :
        (Handles(r, "sign") /\ \A u \in users : u.id # RequestUserId(r)) =>
            /\ reqs'[r].status \in {404, 500}
            /\ reqs'[r].resp = NoResponse

\* a user id comes into the users table only by a register that answers 201
\* with that user id, the id of the key it drew
OnlyRegisterAddsUser ==
    \A id \in {u.id : u \in users'} \ {u.id : u \in users} :
        \E r \in Conns :
            /\ Handles(r, "register")
            /\ reqs'[r].status = 201
            /\ reqs'[r].resp.user_id = id

\* C22: an authenticated DELETE /wallet/{user_id}/revoke answers 204 whether
\* or not the user exists and removes only the row of that user; a sign for
\* the user id that starts after it gets 404 and no signature; the user id is
\* signable again only if a later register draws the key it was derived from.
C22_RevokedStaysRevoked ==
    [][RevokeRemovesOneUser /\ SignOfRevokedIsNotFound /\ OnlyRegisterAddsUser]_vars

\* both connections have revoked the same user and got 204, a user of the
\* other client is still stored
C22_Witness ==
    /\ \A r \in Conns : reqs[r].route = "revoke" /\ reqs[r].status = 204
    /\ RequestUserId(1) = RequestUserId(2)
    /\ \A u \in users : u.id # RequestUserId(1)
    /\ users # {}

\* the middleware has decided the request of connection r, with an answer
\* from storage
DecidedOnStorage(r) == reqs[r].pc \in {"admitted", "done"} /\ reqs[r].dbCred # "error"

\* every request signed with the stored secret of its client is admitted,
\* whatever was admitted and handled before it: all requests carry the same
\* x-timestamp, and a request equal to one that was admitted is admitted
ReplayAdmitted ==
    /\ \A r \in Conns : DecidedOnStorage(r) => reqs[r].verified
    /\ \A r \in Conns, s \in Conns :
        (reqs[r].req = reqs[s].req /\ reqs[r].verified /\ DecidedOnStorage(s)) =>
            /\ reqs[s].verified
            /\ reqs[s].hmacMsg = reqs[r].hmacMsg
            /\ reqs[s].hmacKey = reqs[r].hmacKey

\* no request of the wallet service changes the stored clients and credentials
CredentialsKept == credentials' = credentials /\ clients' = clients

\* C24: x-timestamp is parsed and signed, and compared with nothing: a request
\* that was admitted is admitted again whenever it is sent again with the
\* same headers and body, the stored credentials of its client being the same.
C24_ReplayIsAdmitted == []ReplayAdmitted /\ [][CredentialsKept]_vars

\* a sign request was admitted and answered 200, its response is not yet
\* written; the same request, sent again, is admitted
C24_Witness ==
    /\ reqs[1].req = reqs[2].req
    /\ reqs[1].route = "sign" /\ reqs[1].status = 200
    /\ reqs[2].pc = "admitted" /\ reqs[2].verified

\* the request of connection r names a stored user of another client than the
\* one whose api key and secret signed it
ForeignUser(r) ==
    \E u \in users :
        /\ u.id = RequestUserId(r)
        /\ u.client_id \notin OwnerOf(RequestApiKey(r).val)

\* a sign for the user of another client answers 200 with the message signed
\* under that user's key, as it does for the client of the user; only a
\* storage failure, answered 500, stands in the way
ForeignSignIsServed ==
    \A r \in Conns :
        (Handles(r, "sign") /\ ForeignUser(r)) =>
            \/ reqs'[r].status = 500 /\ reqs'[r].dbUser = "error"
            \/ /\ reqs'[r].status = 200
               /\ \E k \in PrivateKeys :
                    /\ UserNew(k).id = RequestUserId(r)
                    /\ reqs'[r].resp.signature =
                           SignMessage(k, JsonString(reqs[r].payload).val)

\* a revoke for the user of another client answers 204 and deletes the user
ForeignRevokeIsServed ==
    \A r \in Conns :
        (Handles(r, "revoke") /\ ForeignUser(r)) =>
            \/ reqs'[r].status = 500 /\ users' = users
            \/ /\ reqs'[r].status = 204
               /\ \A u \in users' : u.id # RequestUserId(r)

\* C26: sign and revoke act on the user id of the path and never compare the
\* client of the user with the client that authenticated: a request signed by
\* client A for a user of client B is served like B's own, 200 with the
\* signature under the user's key, or 204 and the user deleted.
C26_AnyClientSignsAndRevokes ==
    [][ForeignSignIsServed /\ ForeignRevokeIsServed]_vars

\* connection 1 signed for a stored user of another client and got 200, and
\* connection 2 revoked the other user, registered by another client, and got 204
C26_Witness ==
    /\ reqs[1].route = "sign" /\ reqs[1].status = 200 /\ ForeignUser(1)
    /\ reqs[2].route = "revoke" /\ reqs[2].status = 204
    /\ \E u \in TwoUsers \ users :
        /\ u.id = RequestUserId(2)
        /\ u.client_id \notin OwnerOf(RequestApiKey(2).val)

\* the private key of the user of the request of connection r
SigningKeysOf(r) == { k \in PrivateKeys : UserNew(k).id = RequestUserId(r) }

\* a sign request that was handled found the row and answers 200 with the
\* message and its signature under the key of the user, or found no row and
\* answers 404 with nothing, or got no answer from storage and answers 500
\* with nothing
SignIsWholeOrNotFound ==
    \A r \in Conns :
        (reqs[r].pc = "done" /\ reqs[r].route = "sign") =>
            \/ /\ reqs[r].status = 200 /\ reqs[r].dbUser = "found"
               /\ reqs[r].resp.message = JsonString(reqs[r].payload).val
               /\ \A k \in SigningKeysOf(r) :
                    VerifiesUnder(PublicKeyPem(k), reqs[r].resp.message,
                                  reqs[r].resp.signature)
               /\ SigningKeysOf(r) # {}
            \/ /\ reqs[r].status = 404 /\ reqs[r].dbUser = "none"
               /\ reqs[r].resp = NoResponse
            \/ /\ reqs[r].status = 500 /\ reqs[r].dbUser = "error"
               /\ reqs[r].resp = NoResponse

\* sign_message reads the users table once, in its step: it answers 200 if
\* the row is there and 404 if it is not, it leaves the table as it is, and
\* no step of another request changes the answer before it is written
SignReadsOnce ==
    \A r \in Conns :
        /\ Handles(r, "sign") =>
            /\ users' = users
            /\ reqs'[r].status = 200 =>  \E u \in users : u.id = RequestUserId(r)
            /\ reqs'[r].status = 404 => ~\E u \in users : u.id = RequestUserId(r)
        /\ (reqs[r].pc = "done" /\ reqs'[r].pc = "done") => reqs'[r] = reqs[r]

\* C29: sign_message reads the user row once and is not atomic with revoke:
\* a sign whose get_user completed before a revoke deleted the row still
\* answers 200 with a valid signature, also after the revoke has answered
\* 204; a sign racing a revoke answers 200 with a valid signature or 404
\* (500 when storage fails), never a partial result.
C29_SignRacesRevoke == []SignIsWholeOrNotFound /\ [][SignReadsOnce]_vars

\* the sign of connection 1 holds its 200, not yet written, while the revoke
\* of connection 2 for the same user has answered 204 and the row is gone
C29_Witness ==
    /\ reqs[1].pc = "done" /\ reqs[1].route = "sign" /\ reqs[1].status = 200
    /\ reqs[2].pc = "done" /\ reqs[2].route = "revoke" /\ reqs[2].status = 204
    /\ RequestUserId(1) = RequestUserId(2)
    /\ \A u \in users : u.id # RequestUserId(1)

(***************************************************************************)
(* The admin service with two POST /admin/client requests in flight        *)
(* (admin/src/routes.rs create_client).  A request draws its credentials   *)
(* and encrypts them, then awaits the one statement of                     *)
(* ClientRepository::create, then its response is written.                 *)
(***************************************************************************)
AdminConns == {1, 2}

AdminIdle == [pc |-> "idle", name |-> <<>>, draw |-> None, status |-> 0, body |-> <<>>]

InitAdmin ==
    /\ credentials = {}
    /\ clients = {}
    /\ users = {}
    /\ reqs = [r \in AdminConns |-> AdminIdle]
    /\ tampered = FALSE
    /\ fin = [f |-> "none"]
    /\ fout = [f |-> "none"]

\* a POST /admin/client {name} arrives
AdminReceive(r, name) ==
    /\ reqs[r].pc = "idle"
    /\ reqs' = [reqs EXCEPT ![r] = [AdminIdle EXCEPT !.pc = "received", !.name = name]]
    /\ UNCHANGED <<credentials, clients, users, tampered, fin, fout>>

\* create_client up to the await: Client::new and client.encrypt
AdminEncrypt(r, draw) ==
    /\ reqs[r].pc = "received"
    /\ reqs' = [reqs EXCEPT ![r] =
                  IF NewEncryptedClient[reqs[r].name, draw].ok
                  THEN [@ EXCEPT !.pc = "encrypted", !.draw = Some(draw)]
                  ELSE [@ EXCEPT !.pc = "done", !.draw = Some(draw), !.status = 500]]
    /\ UNCHANGED <<credentials, clients, users, tampered, fin, fout>>

\* create_client from the await of ClientRepository::create to its response
AdminInsert(r, dbUp) ==
    /\ reqs[r].pc = "encrypted"
    /\ \E stored \in {ClientCreate(clients, credentials,
                                   NewEncryptedClient[reqs[r].name, reqs[r].draw.val].val,
                                   dbUp)} :
        /\ clients' = stored.clients
        /\ credentials' = stored.credentials
        /\ reqs' = [reqs EXCEPT ![r] =
                      IF stored.res.ok
                      THEN [@ EXCEPT !.pc = "done", !.status = 201,
                                     !.body = NewClientJson[reqs[r].name, reqs[r].draw.val]]
                      ELSE [@ EXCEPT !.pc = "done", !.status = 500]]
    /\ UNCHANGED <<users, tampered, fin, fout>>

\* the response has been written
AdminRespond(r) ==
    /\ reqs[r].pc = "done"
    /\ reqs' = [reqs EXCEPT ![r] = [@ EXCEPT !.pc = "responded"]]
    /\ UNCHANGED <<credentials, clients, users, tampered, fin, fout>>

NextAdmin ==
    \/ \E r \in AdminConns, name \in Names : AdminReceive(r, name)
    \/ \E r \in AdminConns, draw \in CredentialDraws : AdminEncrypt(r, draw)
    \/ \E r \in AdminConns, dbUp \in BOOLEAN : AdminInsert(r, dbUp)
    \/ \E r \in AdminConns : AdminRespond(r)

SpecAdmin == InitAdmin /\ [][NextAdmin]_vars

(***************************************************************************)
(* Properties of the admin service with two requests in flight             *)
(***************************************************************************)
\* every clients row has one credentials row and every credentials row has
\* its clients row
ClientsAndCredentialsPaired ==
    /\ \A c \in clients : Cardinality({k \in credentials : k.client_id = c.id}) = 1
    /\ \A k \in credentials : \E c \in clients : c.id = k.client_id

\* the await of ClientRepository::create adds one clients row and its
\* credentials row and the request answers 201, or adds nothing and the
\* request answers 500
CreateIsOneStep ==
    \A r \in AdminConns :
        (reqs[r].pc = "encrypted" /\ reqs'[r].pc = "done") =>
            \/ /\ reqs'[r].status = 201
               /\ clients' = clients \cup {[id |-> ClientIdFrom(reqs[r].name),
                                            name |-> reqs[r].name]}
               /\ Cardinality(clients') = Cardinality(clients) + 1
               /\ Cardinality(credentials') = Cardinality(credentials) + 1
               /\ credentials \subseteq credentials'
               /\ \A k \in credentials' \ credentials :
                    /\ k.client_id = ClientIdFrom(reqs[r].name)
                    /\ k.api_key = reqs[r].draw.val.api_key
            \/ /\ reqs'[r].status = 500
               /\ clients' = clients
               /\ credentials' = credentials

\* C25: ClientRepository::create stores the clients row and the credentials
\* row in one step: in every reachable storage state a clients row exists if
\* and only if its credentials row exists, also after an insert that failed
\* on the name, the id or the api key and with two creates in flight.
C25_CreateIsAtomic == []ClientsAndCredentialsPaired /\ [][CreateIsOneStep]_vars

\* a create has failed on the api key another client was stored with, and
\* left no row of its name
C25_Witness ==
    \E r \in AdminConns, k \in credentials :
        /\ reqs[r].pc = "done" /\ reqs[r].status = 500
        /\ k.api_key = reqs[r].draw.val.api_key
        /\ k.client_id # ClientIdFrom(reqs[r].name)
        /\ \A c \in clients : c.name # reqs[r].name

\* requests r and s are two POST /admin/client for one name, each holds the
\* credentials it generated, an api key of its own, and both got their answer
RaceDecided(r, s) ==
    /\ r # s
    /\ reqs[r].name = reqs[s].name
    /\ reqs[r].pc \in {"done", "responded"} /\ reqs[s].pc \in {"done", "responded"}
    /\ reqs[r].draw.some /\ reqs[s].draw.some
    /\ reqs[r].draw.val.api_key # reqs[s].draw.val.api_key

\* the middleware of the wallet service answers 401 to a request signed with
\* the credentials of draw
NotAdmitted(draw) ==
    /\ GetCredentials(credentials, draw.api_key, TRUE) = Ok(None)
    /\ \A call \in {RegisterCall} :
        With(AuthMiddlewareCall([Idle EXCEPT !.pc = "received",
                                    !.req = SignedRequest(call,
                                        CredentialsGenerate(draw.api_key, draw.secret))],
                                credentials, MasterKeyCfg, TRUE),
             LAMBDA slot : slot.pc = "done" /\ slot.status = 401 /\ ~slot.verified)

\* of two creates for one name at most one is answered 201; the other is
\* answered 500, and storage holds the api key and the encrypted secret of
\* the winner and no row of the loser; if both are answered 500 storage
\* answered neither, and holds no row of the name
OneWinner ==
    \A r \in AdminConns, s \in AdminConns :
        RaceDecided(r, s) =>
            /\ reqs[r].status \in {201, 500} /\ reqs[s].status \in {201, 500}
            /\ reqs[r].status = 201 =>
                /\ reqs[s].status = 500
                /\ \A k \in credentials :
                    k.client_id = ClientIdFrom(reqs[r].name) =>
                        /\ k.api_key = reqs[r].draw.val.api_key
                        /\ k.encrypted_secret =
                             EncryptedIntoString(
                                 NewEncryptedClient[reqs[r].name, reqs[r].draw.val]
                                     .val.credentials.encrypted_secret)
                /\ \E k \in credentials : k.client_id = ClientIdFrom(reqs[r].name)
                /\ \A k \in credentials : k.api_key # reqs[s].draw.val.api_key
                /\ NotAdmitted(reqs[s].draw.val)
            /\ (reqs[r].status = 500 /\ reqs[s].status = 500) =>
                \A c \in clients : c.name # reqs[r].name

\* the insert of the request that comes second for a name is answered 500 and
\* changes no row
LoserChangesNothing ==
    \A r \in AdminConns, s \in AdminConns :
        (/\ reqs[r].pc = "encrypted" /\ reqs'[r].pc = "done"
         /\ r # s /\ reqs[s].name = reqs[r].name /\ reqs[s].status = 201) =>
            /\ reqs'[r].status = 500
            /\ clients' = clients /\ credentials' = credentials

\* C30: of two concurrent POST /admin/client with the same name, each with
\* the credentials it generated, at most one insert succeeds: one request is
\* answered 201 and the other 500, storage holds only the api key and the
\* encrypted secret of the winner, and no request is authenticated under the
\* api key of the loser.
C30_OneOfTwoCreatesWins == []OneWinner /\ [][LoserChangesNothing]_vars

\* both requests for one name were in flight together; the first is answered
\* 201 and the second 500, neither response is written yet
C30_Witness ==
    /\ RaceDecided(1, 2)
    /\ reqs[1].pc = "done" /\ reqs[2].pc = "done"
    /\ reqs[1].status = 201 /\ reqs[2].status = 500
    /\ Cardinality(credentials) = 1

====
